---- MODULE Spec2Model ----
(***************************************************************************)
(* FluxPilot flight-deck host (crates/flight-deck/deck.js).                *)
(*                                                                         *)
(* The module models three parts of deck.js as state machines:             *)
(*   - the call dispatcher (callMachineFunction, resolvePending, the       *)
(*     watchdog armed by setPendingTimeout, applyGlobalBrightness);        *)
(*   - the UI-state block transfer (startUiStateFetch,                     *)
(*     requestNextUiStateBlock, scheduleNextUiStateBlock,                  *)
(*     DeckReceiveHandler.onUiStateBlock, handleDisconnect);               *)
(*   - the frame reassembly of the USB receive loop (startUsbReceiveLoop). *)
(*                                                                         *)
(* The initial state is the page after initDeck() has resolved:            *)
(* globalThis[DECK_KEY] holds a FlightDeck and is never unset again (it is *)
(* assigned with ??=), so the `!deck` early returns are never taken.       *)
(* JavaScript handlers run to completion, so each handler is one action.   *)
(***************************************************************************)
EXTENDS Integers, Sequences, FiniteSets, TLC

(* ---------------------------- bounds ----------------------------------- *)
\* number of UI events (control calls, brightness inputs) in a behaviour
MaxCalls == 2
\* number of tracks / machine indices the UI can address
MaxTracks == 3

\* number of times connectUsbDevice completes (UI-state transfers started)
MaxConnects == 2
\* largest total_size an arbitrary UiStateBlockReply announces
MaxTotal == 1
\* largest block_number an arbitrary UiStateBlockReply carries
MaxBlockNo == 1
\* largest block length of an arbitrary UiStateBlockReply
MaxBlockLen == 1
\* largest UI-state blob a faithful device holds
MaxBlob == 3
\* largest block size of a faithful device
MaxBlobBlock == 2
\* number of bytes the receive loop reads in a behaviour
MaxStream == 5
\* largest number of bytes one transferIn result carries
MaxChunk == 3
\* largest number of args of a CallRequest put on the wire
MaxArgs == 2
\* number of clicks on the Load Program button in a behaviour
MaxClicks == 2
\* instructions a VM run executes when calls and returns are explored
MaxCallSteps == 4
\* instructions a VM run executes when memory accesses are explored
MaxMemSteps == 3
\* instructions a VM run executes when arithmetic is explored
MaxArithSteps == 2
\* helper calls of the host render driver on the scenario program
MaxRuns == 2
\* slider inputs and colour-button clicks of one behaviour
MaxInputs == 4
\* USB devices plugged in during one behaviour
MaxDevices == 2
\* connect clicks and autoConnect calls of one behaviour
MaxTries == 3
\* values enqueued in the send queue
MaxSends == 3
\* enqueue and dequeue calls on a queue with free callers
MaxEnqueues == 4
MaxDequeues == 4
\* UI-state blobs received and notifyUiReady calls
MaxBlobs == 3
MaxReady == 2
\* lines of the assembly source of a track, and builds of the program
MaxLines == 3
MaxBuilds == 2
\* helper calls of the host render driver on the default program
MaxDefaultRuns == 3
\* instructions after which a run that has not ended is given up when the
\* outcome of a run is computed in one piece
MaxRunSteps == 16

(* ------------------------- program constants --------------------------- *)
\* JavaScript null (pendingRequestId, pendingTimer, uiStateFetch)
Null == -1
GLOBAL_BRIGHTNESS_FUNCTION == 4
\* a user-defined control function of the default program (set_rgb)
SET_RGB_FUNCTION == 3
\* request IDs are 16-bit and wrap
RequestIdModulus == 65536

Machines == 0 .. (MaxTracks - 1)
Functions == {SET_RGB_FUNCTION, GLOBAL_BRIGHTNESS_FUNCTION}

VARIABLES
    (* dispatcher state of deck.js *)
    pendingRequestId,   \* ID of the request occupying the slot, or Null
    pendingTimer,       \* handle of the armed watchdog, or Null
    pendingCalls,       \* the Map of coalesced calls, in insertion order
    (* environment of the dispatcher *)
    nextRequestId,      \* the ID the FlightDeck hands out next
    nextTimer,          \* the handle setTimeout returns next
    timers,             \* armed watchdogs: [h |-> handle, req |-> request]
    awaiting,           \* IDs of the requests the device has yet to answer,
                        \* oldest first (it serves them in order)
    (* history of the dispatcher *)
    callCount,          \* number of UI events so far; names the args
    callLog,            \* every deck.call invocation, in order
    inFlight,           \* requests sent, neither returned nor timed out
    superseded,         \* <<key, args>> replaced or purged while queued
    lastCall,           \* key -> args of the latest callMachineFunction
    lastError,          \* <<>>, or <<the Error frame the last step gave to
                        \* onError for the request that held the slot>>
    lastReturn          \* <<>>, or <<the CallReturn for a request other
                        \* than the one in the slot that the last step gave
                        \* to onReturn, with the dispatcher state it met>>

dispVars == <<pendingRequestId, pendingTimer, pendingCalls, nextRequestId,
              nextTimer, timers, awaiting, callCount, callLog, inFlight,
              superseded, lastCall, lastError, lastReturn>>

VARIABLES
    (* UI-state transfer state of deck.js *)
    uiStateFetch,       \* <<>> (null) or <<the transfer object>>
    fetchTimers,        \* pending scheduleNextUiStateBlock callbacks
    (* environment of the transfer *)
    wire,               \* ReadUiStateBlock requests the device has yet to
                        \* answer, oldest first: [epoch, block]
    blob,               \* the UI-state blob the device holds
    blockSize,          \* the device's fixed block size
    (* history of the transfer *)
    epochs,             \* number of transfers started so far
    requestLog,         \* every ReadUiStateBlock issued: [epoch, block]
    applied,            \* every applyCompressedUiState call of a transfer
    ended,              \* transfers ended without restore: [epoch, how,
                        \* requests, scheduled]
    lastReply           \* the UiStateBlockReply the last step handed to a
                        \* running transfer, if it did

fetchVars == <<uiStateFetch, fetchTimers, wire, blob, blockSize, epochs,
               requestLog, applied, ended, lastReply>>

VARIABLES
    (* receive loop state of deck.js *)
    incomingFrame,      \* bytes accumulated since the last delivery
    (* history of the receive loop *)
    stream,             \* all bytes read so far, concatenated
    chunkEnds,          \* stream lengths at which a transferIn result ended
    delivered,          \* every deck.receive call: [frame, bufferAfter]
    (* the sending end of the wire *)
    sent,               \* <<>> or <<the CallRequest put on the wire>>
    pendingBytes        \* bytes of its frame the receiver has yet to read

recvVars == <<incomingFrame, stream, chunkEnds, delivered, sent, pendingBytes>>

VARIABLES
    (* the Load Program button of deck.js *)
    loadClicks,         \* clicks handled so far
    loadClick,          \* <<>> or <<the last click: its inputs and outcome>>
    loadCalls           \* the sources handed to deck.load_program, in order

loadVars == <<loadClicks, loadClick, loadCalls>>

VARIABLES
    (* the light_machine interpreter *)
    static_data,        \* the program image, a sequence of ProgramWords
    vmStack,            \* the live stack, bottom first
    globals,            \* the cells [0, GLOBALS_SIZE) of memory
    frame_pointer,      \* index of arg0 of the current frame in the stack
    mlp,                \* machine locals pointer
    machine,            \* index of the instance the run is for
    pc,                 \* program counter
    callFrames,         \* what each nested run keeps of its caller
    vmError,            \* <<>> or <<the MachineError that aborted the run>>
    exited,             \* EXIT has ended the run
    vmFuel,             \* instructions the run may still execute
    (* history of the run *)
    vmTrace,            \* the instructions executed, with what they accessed
    vmDepthSeen         \* the deepest nesting of calls so far

vmVars == <<static_data, vmStack, globals, frame_pointer, mlp, machine, pc,
            callFrames, vmError, exited, vmFuel, vmTrace, vmDepthSeen>>

VARIABLES
    (* the host render driver *)
    hostCall,           \* <<>> or <<the helper call whose run is executing>>
    hostLog             \* the helper calls completed, with their results

hostVars == <<hostCall, hostLog>>

VARIABLES
    (* the slider dispatcher of the earlier deck.js *)
    pendingColor,       \* <<>> (null) or <<the colour kept for later>>
    sendTimers          \* colours of the pending scheduleSend callbacks

sliderVars == <<pendingColor, sendTimers>>

VARIABLES
    (* the USB connection of deck.js *)
    writer,             \* Null or the device of the connection
    usbReadActive,      \* a receive loop is running
    connectInFlight,    \* a connectUsbDevice body is in progress
    controlsEnabled,    \* enableControls / disableControls
    (* the asynchronous executions in progress *)
    bodies,             \* connectUsbDevice bodies awaiting the device:
                        \* [id, device, via, stage]
    autos,              \* autoConnect calls awaiting getDevices
    loops,              \* receive loops awaiting transferIn: [id, device]
    (* environment and history of the connection *)
    attached,           \* the devices plugged in
    devices,            \* number of devices plugged in so far
    tries,              \* connect clicks and autoConnect calls so far
    linkMark,           \* <<>> or <<what had been read and delivered when
                        \* the connection was made, and whether it followed
                        \* a disconnect>>
    lastEnd             \* <<>> or <<the event for which the last step
                        \* called handleDisconnect, and the writer then>>

linkVars == <<writer, usbReadActive, connectInFlight, controlsEnabled, bodies,
              autos, loops, attached, devices, tries, linkMark, lastEnd>>

VARIABLES
    (* the send queue of deck.js: an AsyncQueue and its consumer *)
    values,             \* AsyncQueue.values: the frames waiting, oldest first
    resolvers,          \* AsyncQueue.resolvers: the dequeue calls waiting
    consumer,           \* where consumeQueue is: "init" (not called),
                        \* "dequeue" (awaiting dequeue) or "transferOut"
    (* history of the queue *)
    enqLog,             \* the values enqueued, in order
    delivery,           \* what each dequeue call has received so far:
                        \* delivery[k] is <<>> or <<the value>>
    consumed,           \* what consumeQueue handed to sendMessage:
                        \* [k, message, writer]
    outLog              \* the transferOut calls: [k, message, device,
                        \* settled]

sendVars == <<values, resolvers, consumer, enqLog, delivery, consumed,
              outLog>>

VARIABLES
    (* restoring a received UI state *)
    pendingUiStateBytes,    \* <<>> (null) or <<the blob kept for later>>
    restorerRegistered,     \* globalThis.__restoreUiState is a function
    retryTimers,            \* number of pending 250 ms retry callbacks
    gunzips,                \* the blobs whose gunzipBytes is in progress
    (* history of the restore *)
    blobsReceived,          \* number of blobs received so far
    earlyBlobs,             \* the blobs received with no restorer registered
    restoreLog,             \* the blobs passed to the restorer, in order
    readyCalls              \* notifyUiReady calls so far

restoreVars == <<pendingUiStateBytes, restorerRegistered, retryTimers,
                 gunzips, blobsReceived, earlyBlobs, restoreLog, readyCalls>>

VARIABLES
    (* a track of the page and its controls *)
    machineAssembly,    \* track.dataset.machineAssembly, a text
    controlStatics,     \* what getTrackControlStatics returns for it
    (* history of the track *)
    builds              \* the builds so far: [before, statics, after]

trackVars == <<machineAssembly, controlStatics, builds>>

(* the state of the page outside the connection *)
pageRest == <<sendVars, restoreVars, trackVars>>

(* the state of the page outside the modules above *)
pageVars == <<linkVars, pageRest>>

(* the state no transport handler of deck.js touches *)
restVars == <<loadVars, vmVars, hostVars, sliderVars, pageVars>>

vars == <<dispVars, fetchVars, recvVars, restVars>>

(* ----------------------------------------------------------------------- *)
(* The dispatcher                                                          *)
(* ----------------------------------------------------------------------- *)

\* the key `${machineIndex}:${functionIndex}` of callMachineFunction
KeyOf(machineIndex, functionIndex) == <<machineIndex, functionIndex>>

EntryKey(e) == KeyOf(e.machineIndex, e.functionIndex)

Keys == Machines \X Functions

\* Map.prototype.delete on the insertion-ordered Map
MapDelete(m, key) == SelectSeq(m, LAMBDA e : EntryKey(e) # key)

MapHas(m, key) == \E i \in 1 .. Len(m) : EntryKey(m[i]) = key

\* Map.prototype.set: a present key keeps its position, a new key is appended
MapSet(m, key, entry) ==
    IF MapHas(m, key)
    THEN [i \in 1 .. Len(m) |-> IF EntryKey(m[i]) = key THEN entry ELSE m[i]]
    ELSE Append(m, entry)

\* the dispatcher state as one record, so that handlers can call each other
Disp ==
    [pendingRequestId |-> pendingRequestId, pendingTimer |-> pendingTimer,
     pendingCalls |-> pendingCalls, nextRequestId |-> nextRequestId,
     nextTimer |-> nextTimer, timers |-> timers, awaiting |-> awaiting,
     callLog |-> callLog, inFlight |-> inFlight, superseded |-> superseded,
     lastCall |-> lastCall, lastError |-> <<>>, lastReturn |-> <<>>]

SetDisp(d) ==
    /\ pendingRequestId' = d.pendingRequestId
    /\ pendingTimer' = d.pendingTimer
    /\ pendingCalls' = d.pendingCalls
    /\ nextRequestId' = d.nextRequestId
    /\ nextTimer' = d.nextTimer
    /\ timers' = d.timers
    /\ awaiting' = d.awaiting
    /\ callLog' = d.callLog
    /\ inFlight' = d.inFlight
    /\ superseded' = d.superseded
    /\ lastCall' = d.lastCall
    /\ lastError' = d.lastError
    /\ lastReturn' = d.lastReturn

\* As ClearTimeout, but the armed callback stays scheduled.
ClearTimeoutKeepArmed(d) == d

\* clearTimeout(pendingTimer): the armed callback will not run
ClearTimeout(d) ==
    [d EXCEPT !.timers = {t \in @ : t.h # d.pendingTimer}]

\* setPendingTimeout: replace the armed watchdog by a fresh one; the new
\* timer is armed for the request that has just been stored in the slot
SetPendingTimeout(d) ==
    LET c == IF d.pendingTimer # Null THEN ClearTimeout(d) ELSE d
    IN [c EXCEPT !.pendingTimer = d.nextTimer,
                 !.timers = @ \cup {[h |-> d.nextTimer,
                                     req |-> d.pendingRequestId]},
                 !.nextTimer = @ + 1]

\* deck.call(machineIndex, functionIndex, args): either a CallRequest is
\* encoded and queued for sending and its request ID returned (ok), or the
\* call throws / returns no ID and nothing is sent
DeckCall(d, machineIndex, functionIndex, args, ok) ==
    LET id == IF ok THEN d.nextRequestId ELSE Null
        logged == [d EXCEPT !.callLog = Append(@,
                      [machineIndex |-> machineIndex,
                       functionIndex |-> functionIndex,
                       args |-> args, requestId |-> id])]
    IN IF ok
       THEN [logged EXCEPT
                !.nextRequestId = (@ + 1) % RequestIdModulus,
                !.awaiting = Append(@, id),
                !.inFlight = @ \cup {[requestId |-> id,
                                      machineIndex |-> machineIndex,
                                      functionIndex |-> functionIndex,
                                      args |-> args]}]
       ELSE logged

\* the body of callMachineFunction, entered from the UI or from the
\* dispatcher itself; ok is the outcome of deck.call should it be reached
CallMachineFunctionSendAlways(d, machineIndex, functionIndex, args, ok) ==
    LET called == DeckCall(d, machineIndex, functionIndex, args, ok)
    IN IF ok
       THEN SetPendingTimeout(
                [called EXCEPT !.pendingRequestId = d.nextRequestId])
       ELSE called

CallMachineFunction(d, machineIndex, functionIndex, args, ok) ==
    LET key == KeyOf(machineIndex, functionIndex)
    IN IF d.pendingRequestId # Null
       THEN [d EXCEPT
                !.superseded = @ \cup
                    {<<key, e.args>> : e \in
                        {d.pendingCalls[i] : i \in
                            {j \in 1 .. Len(d.pendingCalls) :
                                EntryKey(d.pendingCalls[j]) = key}}},
                !.pendingCalls = MapSet(MapDelete(@, key), key,
                    [machineIndex |-> machineIndex,
                     functionIndex |-> functionIndex,
                     args |-> args])]
       ELSE LET called == DeckCall(d, machineIndex, functionIndex, args, ok)
            IN IF ok
               THEN SetPendingTimeout(
                        [called EXCEPT !.pendingRequestId = d.nextRequestId])
               ELSE called

\* const [key, next] = pendingCalls.entries().next().value;
\* pendingCalls.delete(key); callMachineFunction(next...)
SendNextPending(d, ok) ==
    IF Len(d.pendingCalls) > 0
    THEN LET next == Head(d.pendingCalls)
             rest == [d EXCEPT !.pendingCalls = MapDelete(@, EntryKey(next))]
         IN CallMachineFunction(rest, next.machineIndex, next.functionIndex,
                                next.args, ok)
    ELSE d

\* resolvePending(requestId)
ResolvePendingKeepQueue(d, requestId, ok) ==
    IF d.pendingRequestId = Null \/ d.pendingRequestId # requestId
    THEN d
    ELSE LET cleared == IF d.pendingTimer # Null
                        THEN [ClearTimeout(d) EXCEPT !.pendingTimer = Null]
                        ELSE d
         IN [cleared EXCEPT !.pendingRequestId = Null]

\* As ResolvePending, but any CallReturn releases the slot.
ResolvePendingAnyId(d, requestId, ok) ==
    IF d.pendingRequestId = Null
    THEN d
    ELSE LET cleared == IF d.pendingTimer # Null
                        THEN [ClearTimeout(d) EXCEPT !.pendingTimer = Null]
                        ELSE d
             released == [cleared EXCEPT !.pendingRequestId = Null]
         IN SendNextPending(released, ok)

ResolvePending(d, requestId, ok) ==
    IF d.pendingRequestId = Null \/ d.pendingRequestId # requestId
    THEN d
    ELSE LET cleared == IF d.pendingTimer # Null
                        THEN [ClearTimeout(d) EXCEPT !.pendingTimer = Null]
                        ELSE d
             released == [cleared EXCEPT !.pendingRequestId = Null]
         IN SendNextPending(released, ok)

\* the callback armed by setPendingTimeout, run for the timer handle h
WatchdogCallbackKeepSlot(d, h, ok) ==
    [d EXCEPT !.pendingTimer = Null]

\* As WatchdogCallback, but pendingTimer keeps the handle of the timer
\* that has fired.
WatchdogCallbackKeepTimer(d, h, ok) ==
    IF d.pendingRequestId # Null
    THEN SendNextPending([d EXCEPT !.pendingRequestId = Null], ok)
    ELSE d

WatchdogCallback(d, h, ok) ==
    LET fired == [d EXCEPT !.pendingTimer = Null]
    IN IF fired.pendingRequestId # Null
       THEN SendNextPending([fired EXCEPT !.pendingRequestId = Null], ok)
       ELSE fired

\* applyGlobalBrightness, the forEach over the active tracks from index on
RECURSIVE BrightnessCalls(_, _, _, _, _)
BrightnessCalls(d, index, trackCount, args, oks) ==
    IF index >= trackCount
    THEN d
    ELSE BrightnessCalls(
             CallMachineFunction(
                 [d EXCEPT !.lastCall[KeyOf(index,
                                GLOBAL_BRIGHTNESS_FUNCTION)] = args],
                 index, GLOBAL_BRIGHTNESS_FUNCTION, args, oks[index]),
             index + 1, trackCount, args, oks)

\* applyGlobalBrightness(value) with trackCount active tracks
ApplyGlobalBrightness(d, trackCount, args, oks) ==
    LET purged == [d EXCEPT
            !.superseded = @ \cup
                {<<EntryKey(e), e.args>> : e \in
                    {d.pendingCalls[i] : i \in
                        {j \in 1 .. Len(d.pendingCalls) :
                            d.pendingCalls[j].functionIndex
                                = GLOBAL_BRIGHTNESS_FUNCTION}}},
            !.pendingCalls = SelectSeq(@, LAMBDA e :
                e.functionIndex # GLOBAL_BRIGHTNESS_FUNCTION)]
    IN BrightnessCalls(purged, 0, trackCount, args, oks)

(* ----------------------- dispatcher actions ---------------------------- *)

\* a track control calls callMachineFunction (sendControlCall in ui.js);
\* the args of the n-th UI event are named n
UiCall(machineIndex, functionIndex, ok) ==
    /\ callCount < MaxCalls
    /\ callCount' = callCount + 1
    /\ SetDisp(CallMachineFunction(
           [Disp EXCEPT !.lastCall[KeyOf(machineIndex, functionIndex)]
                            = callCount + 1],
           machineIndex, functionIndex, callCount + 1, ok))
    /\ UNCHANGED <<fetchVars, recvVars, restVars>>

\* the brightness slider's input handler with trackCount active tracks
BrightnessInput(trackCount, oks) ==
    /\ callCount < MaxCalls
    /\ trackCount > 0
    /\ callCount' = callCount + 1
    /\ SetDisp(ApplyGlobalBrightness(Disp, trackCount, callCount + 1, oks))
    /\ UNCHANGED <<fetchVars, recvVars, restVars>>

\* the device's CallReturn for the oldest unanswered request is decoded and
\* DeckReceiveHandler.onReturn runs
OnReturn(ok) ==
    /\ awaiting # <<>>
    /\ SetDisp(ResolvePending(
           [Disp EXCEPT !.awaiting = Tail(@),
                        !.inFlight = {r \in @ : r.requestId # Head(awaiting)},
                        !.lastReturn =
                            IF Head(awaiting) # pendingRequestId
                            THEN <<[requestId |-> Head(awaiting),
                                    pendingRequestId |-> pendingRequestId,
                                    pendingTimer |-> pendingTimer,
                                    pendingCalls |-> pendingCalls,
                                    calls |-> Len(callLog)]>>
                            ELSE <<>>],
           Head(awaiting), ok))
    /\ UNCHANGED <<callCount, fetchVars, recvVars, restVars>>

\* the reply to the oldest unanswered request never reaches the host
ReplyLost ==
    /\ awaiting # <<>>
    /\ awaiting' = Tail(awaiting)
    /\ lastError' = <<>>
    /\ lastReturn' = <<>>
    /\ UNCHANGED <<pendingRequestId, pendingTimer, pendingCalls,
                   nextRequestId, nextTimer, timers, callCount, callLog,
                   inFlight, superseded, lastCall, fetchVars, recvVars, restVars>>

\* DeckReceiveHandler.onError(hasRequestId, requestId, errorCode,
\* errorString): console.warn, nothing else
OnError(d, hasRequestId, requestId) == d

\* the device answers the oldest unanswered request with an Error frame
\* that carries has_request_id and the request's ID; onError runs
ErrorReply ==
    /\ awaiting # <<>>
    /\ SetDisp(OnError(
           [Disp EXCEPT
               !.awaiting = Tail(@),
               !.lastError =
                   IF Head(awaiting) = pendingRequestId
                   THEN <<[requestId |-> Head(awaiting),
                           queued |-> Len(pendingCalls)]>>
                   ELSE <<>>],
           TRUE, Head(awaiting)))
    /\ UNCHANGED <<callCount, fetchVars, recvVars, restVars>>

\* the watchdog timer t expires and its callback runs
WatchdogFires(t, ok) ==
    /\ t \in timers
    /\ SetDisp(WatchdogCallback(
           [Disp EXCEPT !.timers = @ \ {t},
                        !.inFlight = {r \in @ : r.requestId # t.req}],
           t.h, ok))
    /\ UNCHANGED <<callCount, fetchVars, recvVars, restVars>>

DispInit ==
    /\ pendingRequestId = Null
    /\ pendingTimer = Null
    /\ pendingCalls = <<>>
    /\ nextRequestId = 0
    /\ nextTimer = 1
    /\ timers = {}
    /\ awaiting = <<>>
    /\ callCount = 0
    /\ callLog = <<>>
    /\ inFlight = {}
    /\ superseded = {}
    /\ lastCall = [k \in Keys |-> 0]
    /\ lastError = <<>>
    /\ lastReturn = <<>>

DispNext ==
    \/ \E m \in Machines, f \in Functions, ok \in BOOLEAN : UiCall(m, f, ok)
    \/ \E n \in 1 .. MaxTracks, oks \in [Machines -> BOOLEAN] :
           BrightnessInput(n, oks)
    \/ \E ok \in BOOLEAN : OnReturn(ok)
    \/ ReplyLost
    \/ \E t \in timers, ok \in BOOLEAN : WatchdogFires(t, ok)

\* the dispatcher with Error replies
DispNextErr == DispNext \/ ErrorReply

\* the dispatcher when deck.call always returns a request ID
DispNextOk ==
    \/ \E m \in Machines, f \in Functions : UiCall(m, f, TRUE)
    \/ \E n \in 1 .. MaxTracks : BrightnessInput(n, [m \in Machines |-> TRUE])
    \/ OnReturn(TRUE)
    \/ ReplyLost
    \/ \E t \in timers : WatchdogFires(t, TRUE)

\* setTimeout: an armed watchdog that is not cleared does expire
WatchdogFairness ==
    WF_vars(\E t \in timers, ok \in BOOLEAN : WatchdogFires(t, ok))

(* ----------------------------------------------------------------------- *)
(* The UI-state block transfer                                             *)
(* ----------------------------------------------------------------------- *)

NullFetch == <<>>

\* the byte values of a blob
ByteVals == {1, 2}

\* the byte values of an arbitrary reply: the handlers copy the bytes of a
\* block and never inspect them, so one value stands for all
ReplyByteVals == {1}

\* the sequences over S of length at most n
RECURSIVE SeqsUpTo(_, _)
SeqsUpTo(S, n) ==
    IF n = 0
    THEN {<<>>}
    ELSE LET shorter == SeqsUpTo(S, n - 1)
         IN shorter \cup {Append(q, x) : q \in shorter, x \in S}

Blocks == SeqsUpTo(ReplyByteVals, MaxBlockLen)

\* the last step handed no reply to a running transfer
NoReply ==
    [live |-> FALSE, epoch |-> 0, first |-> FALSE, zeroTotal |-> FALSE,
     unexpected |-> FALSE]

\* the reply (totalSize, blockNumber) as the transfer f.uiStateFetch meets
\* it: is it the transfer's first reply, does it announce total_size = 0,
\* is its block_number other than the expected one
ReplySeen(f, totalSize, blockNumber) ==
    IF f.uiStateFetch = NullFetch
    THEN NoReply
    ELSE [live |-> TRUE, epoch |-> f.uiStateFetch[1].epoch,
          first |-> f.uiStateFetch[1].totalSize = Null,
          zeroTotal |-> totalSize = 0,
          unexpected |-> blockNumber # f.uiStateFetch[1].nextBlock]

\* the transfer state as one record, so that handlers can call each other
Fetch ==
    [uiStateFetch |-> uiStateFetch, fetchTimers |-> fetchTimers,
     wire |-> wire, epochs |-> epochs, requestLog |-> requestLog,
     applied |-> applied, ended |-> ended, lastReply |-> NoReply]

SetFetch(f) ==
    /\ uiStateFetch' = f.uiStateFetch
    /\ fetchTimers' = f.fetchTimers
    /\ wire' = f.wire
    /\ epochs' = f.epochs
    /\ requestLog' = f.requestLog
    /\ applied' = f.applied
    /\ ended' = f.ended
    /\ lastReply' = f.lastReply

\* the ReadUiStateBlock requests issued for transfer e, in order
EpochRequests(log, e) == SelectSeq(log, LAMBDA r : r.epoch = e)

\* uiStateFetch = null, remembering how the transfer ended, how many
\* requests it had issued and whether a callback was still scheduled
DropFetch(f, how) ==
    [f EXCEPT !.uiStateFetch = NullFetch,
              !.ended = @ \cup
                  {[epoch |-> f.uiStateFetch[1].epoch, how |-> how,
                    requests |-> Len(EpochRequests(f.requestLog,
                                         f.uiStateFetch[1].epoch)),
                    scheduled |-> f.fetchTimers > 0]}]

\* requestNextUiStateBlock; ok is the outcome of deck.read_ui_state_block
\* (FALSE: it throws and the catch clause drops the transfer)
RequestNextIgnoringInFlight(f, ok) ==
    IF f.uiStateFetch = NullFetch
    THEN f
    ELSE LET u == f.uiStateFetch[1]
             marked == [f EXCEPT !.uiStateFetch[1].inFlight = TRUE]
             request == [epoch |-> u.epoch, block |-> u.nextBlock]
         IN IF ok
            THEN [marked EXCEPT !.wire = Append(@, request),
                                !.requestLog = Append(@, request)]
            ELSE DropFetch(marked, "throw")

RequestNextUiStateBlock(f, ok) ==
    IF f.uiStateFetch = NullFetch \/ f.uiStateFetch[1].inFlight
    THEN f
    ELSE LET u == f.uiStateFetch[1]
             marked == [f EXCEPT !.uiStateFetch[1].inFlight = TRUE]
             request == [epoch |-> u.epoch, block |-> u.nextBlock]
         IN IF ok
            THEN [marked EXCEPT !.wire = Append(@, request),
                                !.requestLog = Append(@, request)]
            ELSE DropFetch(marked, "throw")

\* startUiStateFetch
StartUiStateFetch(f, ok) ==
    RequestNextUiStateBlock(
        [f EXCEPT !.epochs = @ + 1,
                  !.uiStateFetch = <<[totalSize |-> Null, received |-> 0,
                                      nextBlock |-> 0, chunks |-> <<>>,
                                      inFlight |-> FALSE,
                                      epoch |-> f.epochs + 1]>>],
        ok)

\* scheduleNextUiStateBlock: setTimeout(requestNextUiStateBlock, 0)
ScheduleNextUiStateBlock(f) == [f EXCEPT !.fetchTimers = @ + 1]

\* the forEach of onUiStateBlock that copies the chunks into the
\* zero-filled Uint8Array(total)
RECURSIVE CombineChunks(_, _, _, _)
CombineChunks(chunks, total, offset, combined) ==
    IF chunks = <<>>
    THEN combined
    ELSE LET part == Head(chunks)
             remaining == total - offset
         IN IF remaining <= 0
            THEN CombineChunks(Tail(chunks), total, offset, combined)
            ELSE LET slice == IF Len(part) > remaining
                              THEN SubSeq(part, 1, remaining)
                              ELSE part
                 IN CombineChunks(Tail(chunks), total, offset + Len(slice),
                        [i \in 1 .. total |->
                            IF i > offset /\ i <= offset + Len(slice)
                            THEN slice[i - offset]
                            ELSE combined[i]])

Combined(chunks, total) ==
    CombineChunks(chunks, total, 0, [i \in 1 .. total |-> 0])

\* DeckReceiveHandler.onUiStateBlock(requestId, totalSize, blockNumber, block)
OnUiStateBlockNoOrderCheck(f, totalSize, blockNumber, block) ==
    IF f.uiStateFetch = NullFetch
    THEN f
    ELSE LET u0 == f.uiStateFetch[1]
             u == [u0 EXCEPT !.inFlight = FALSE,
                             !.totalSize = IF @ = Null THEN totalSize ELSE @]
             g == [f EXCEPT !.uiStateFetch = <<u>>]
         IN IF totalSize = 0
            THEN DropFetch(g, "zero")
            ELSE LET v == [u EXCEPT !.chunks = Append(@, block),
                                    !.received = @ + Len(block),
                                    !.nextBlock = @ + 1]
                 IN IF v.received >= v.totalSize
                    THEN [g EXCEPT
                            !.uiStateFetch = NullFetch,
                            !.applied = Append(@,
                                [epoch |-> v.epoch,
                                 bytes |-> Combined(v.chunks, v.totalSize),
                                 blocks |-> Len(v.chunks),
                                 requests |-> Len(EpochRequests(
                                                  f.requestLog, v.epoch))])]
                    ELSE ScheduleNextUiStateBlock(
                             [g EXCEPT !.uiStateFetch = <<v>>])

OnUiStateBlockPrepend(f, totalSize, blockNumber, block) ==
    IF f.uiStateFetch = NullFetch
    THEN f
    ELSE LET u0 == f.uiStateFetch[1]
             u == [u0 EXCEPT !.inFlight = FALSE,
                             !.totalSize = IF @ = Null THEN totalSize ELSE @]
             g == [f EXCEPT !.uiStateFetch = <<u>>]
         IN IF totalSize = 0
            THEN DropFetch(g, "zero")
            ELSE IF blockNumber # u.nextBlock
            THEN DropFetch(g, "order")
            ELSE LET v == [u EXCEPT !.chunks = <<block>> \o @,
                                    !.received = @ + Len(block),
                                    !.nextBlock = @ + 1]
                 IN IF v.received >= v.totalSize
                    THEN [g EXCEPT
                            !.uiStateFetch = NullFetch,
                            !.applied = Append(@,
                                [epoch |-> v.epoch,
                                 bytes |-> Combined(v.chunks, v.totalSize),
                                 blocks |-> Len(v.chunks),
                                 requests |-> Len(EpochRequests(
                                                  f.requestLog, v.epoch))])]
                    ELSE ScheduleNextUiStateBlock(
                             [g EXCEPT !.uiStateFetch = <<v>>])

OnUiStateBlockKeepOnZero(f, totalSize, blockNumber, block) ==
    IF f.uiStateFetch = NullFetch
    THEN f
    ELSE LET u0 == f.uiStateFetch[1]
             u == [u0 EXCEPT !.inFlight = FALSE,
                             !.totalSize = IF @ = Null THEN totalSize ELSE @]
             g == [f EXCEPT !.uiStateFetch = <<u>>]
         IN IF blockNumber # u.nextBlock
            THEN DropFetch(g, "order")
            ELSE LET v == [u EXCEPT !.chunks = Append(@, block),
                                    !.received = @ + Len(block),
                                    !.nextBlock = @ + 1]
                 IN IF v.received >= v.totalSize
                    THEN [g EXCEPT
                            !.uiStateFetch = NullFetch,
                            !.applied = Append(@,
                                [epoch |-> v.epoch,
                                 bytes |-> Combined(v.chunks, v.totalSize),
                                 blocks |-> Len(v.chunks),
                                 requests |-> Len(EpochRequests(
                                                  f.requestLog, v.epoch))])]
                    ELSE ScheduleNextUiStateBlock(
                             [g EXCEPT !.uiStateFetch = <<v>>])

OnUiStateBlock(f, totalSize, blockNumber, block) ==
    IF f.uiStateFetch = NullFetch
    THEN f
    ELSE LET u0 == f.uiStateFetch[1]
             u == [u0 EXCEPT !.inFlight = FALSE,
                             !.totalSize = IF @ = Null THEN totalSize ELSE @]
             g == [f EXCEPT !.uiStateFetch = <<u>>]
         IN IF totalSize = 0
            THEN DropFetch(g, "zero")
            ELSE IF blockNumber # u.nextBlock
            THEN DropFetch(g, "order")
            ELSE LET v == [u EXCEPT !.chunks = Append(@, block),
                                    !.received = @ + Len(block),
                                    !.nextBlock = @ + 1]
                 IN IF v.received >= v.totalSize
                    THEN [g EXCEPT
                            !.uiStateFetch = NullFetch,
                            !.applied = Append(@,
                                [epoch |-> v.epoch,
                                 bytes |-> Combined(v.chunks, v.totalSize),
                                 blocks |-> Len(v.chunks),
                                 requests |-> Len(EpochRequests(
                                                  f.requestLog, v.epoch))])]
                    ELSE ScheduleNextUiStateBlock(
                             [g EXCEPT !.uiStateFetch = <<v>>])

\* handleDisconnect: uiStateFetch = null
HandleDisconnect(f) ==
    IF f.uiStateFetch = NullFetch THEN f ELSE DropFetch(f, "disconnect")

(* ------------------------- transfer actions ---------------------------- *)

\* connectUsbDevice runs to its end and calls startUiStateFetch
ConnectUsbDevice(ok) ==
    /\ epochs < MaxConnects
    /\ SetFetch(StartUiStateFetch(Fetch, ok))
    /\ UNCHANGED <<blob, blockSize, dispVars, recvVars, restVars>>

\* a disconnect event or a failed transfer calls handleDisconnect while a
\* transfer is running
Disconnect ==
    /\ uiStateFetch # NullFetch
    /\ SetFetch(HandleDisconnect(Fetch))
    /\ UNCHANGED <<blob, blockSize, dispVars, recvVars, restVars>>

\* a callback of scheduleNextUiStateBlock runs
FetchTimerFires(ok) ==
    /\ fetchTimers > 0
    /\ SetFetch(RequestNextUiStateBlock(
           [Fetch EXCEPT !.fetchTimers = @ - 1], ok))
    /\ UNCHANGED <<blob, blockSize, dispVars, recvVars, restVars>>

\* the device's UiStateBlockReply to the oldest unanswered request is
\* decoded; nothing is assumed about its contents
BlockReply(totalSize, blockNumber, block) ==
    /\ wire # <<>>
    /\ SetFetch(OnUiStateBlock(
           [Fetch EXCEPT !.wire = Tail(@),
                         !.lastReply = ReplySeen(Fetch, totalSize,
                                                 blockNumber)],
           totalSize, blockNumber, block))
    /\ UNCHANGED <<blob, blockSize, dispVars, recvVars, restVars>>

\* the bytes [n*B, min((n+1)*B, L)) of the blob
BlobBlock(n) ==
    LET first == n * blockSize + 1
        last == IF (n + 1) * blockSize < Len(blob)
                THEN (n + 1) * blockSize ELSE Len(blob)
    IN IF first > last THEN <<>> ELSE SubSeq(blob, first, last)

\* the device answers the oldest unanswered request for block n with
\* total_size = L and the bytes of block n of its blob
FaithfulBlockReply ==
    /\ wire # <<>>
    /\ SetFetch(OnUiStateBlock(
           [Fetch EXCEPT !.wire = Tail(@),
                         !.lastReply = ReplySeen(Fetch, Len(blob),
                                                 Head(wire).block)],
           Len(blob), Head(wire).block, BlobBlock(Head(wire).block)))
    /\ UNCHANGED <<blob, blockSize, dispVars, recvVars, restVars>>

\* the reply to the oldest unanswered request never reaches the host
BlockReplyLost ==
    /\ wire # <<>>
    /\ wire' = Tail(wire)
    /\ lastReply' = NoReply
    /\ UNCHANGED <<uiStateFetch, fetchTimers, blob, blockSize, epochs,
                   requestLog, applied, ended, dispVars, recvVars, restVars>>

FetchInit ==
    /\ uiStateFetch = NullFetch
    /\ fetchTimers = 0
    /\ wire = <<>>
    /\ epochs = 0
    /\ requestLog = <<>>
    /\ applied = <<>>
    /\ ended = {}
    /\ lastReply = NoReply

\* the device's blob plays no part when replies are arbitrary
DeviceInit == blob = <<>> /\ blockSize = 1

FetchNext ==
    \/ \E ok \in BOOLEAN : ConnectUsbDevice(ok)
    \/ Disconnect
    \/ \E ok \in BOOLEAN : FetchTimerFires(ok)
    \/ \E t \in 0 .. MaxTotal, n \in 0 .. MaxBlockNo, b \in Blocks :
           BlockReply(t, n, b)
    \/ BlockReplyLost

\* one connection to a device that holds a non-empty blob and answers
\* every request for block n with block n
FaithfulDeviceInit ==
    /\ blob \in (SeqsUpTo(ByteVals, MaxBlob) \ {<<>>})
    /\ blockSize \in 1 .. MaxBlobBlock

FaithfulNext ==
    \/ epochs = 0 /\ ConnectUsbDevice(TRUE)
    \/ FetchTimerFires(TRUE)
    \/ FaithfulBlockReply

\* a device that holds any blob and answers every request for block n with
\* block n, behind a host that connects, disconnects and reconnects
DeviceBlobInit ==
    /\ blob \in SeqsUpTo(ByteVals, MaxBlob)
    /\ blockSize \in 1 .. MaxBlobBlock

ReconnectNext ==
    \/ \E ok \in BOOLEAN : ConnectUsbDevice(ok)
    \/ Disconnect
    \/ \E ok \in BOOLEAN : FetchTimerFires(ok)
    \/ FaithfulBlockReply
    \/ BlockReplyLost

\* the device answers, and a setTimeout(0) callback does run
FaithfulFairness ==
    /\ WF_vars(FetchTimerFires(TRUE))
    /\ WF_vars(FaithfulBlockReply)
    /\ WF_vars(epochs = 0 /\ ConnectUsbDevice(TRUE))

\* a setTimeout(0) callback does run, and the reply to an outstanding
\* request is eventually either decoded or lost
LossyFairness ==
    /\ \A ok \in BOOLEAN : WF_vars(FetchTimerFires(ok))
    /\ WF_vars(FaithfulBlockReply \/ BlockReplyLost)

(* ----------------------------------------------------------------------- *)
(* The USB receive loop                                                    *)
(* ----------------------------------------------------------------------- *)

WireBytes == {0, 1, 2}

\* the receive state as one record
Recv == [incomingFrame |-> incomingFrame, delivered |-> delivered]

\* the body of `for (const byte of data)` for one byte
ProcessByteDropDelimiter(r, byte) ==
    IF byte # 0
    THEN [r EXCEPT !.incomingFrame = Append(@, byte)]
    ELSE [r EXCEPT !.incomingFrame = <<>>,
                   !.delivered = Append(@, [frame |-> r.incomingFrame,
                                            bufferAfter |-> <<>>])]

ProcessByteKeepBuffer(r, byte) ==
    LET pushed == Append(r.incomingFrame, byte)
    IN IF byte # 0
       THEN [r EXCEPT !.incomingFrame = pushed]
       ELSE [r EXCEPT !.incomingFrame = pushed,
                      !.delivered = Append(@, [frame |-> pushed,
                                               bufferAfter |-> pushed])]

ProcessByte(r, byte) ==
    LET pushed == Append(r.incomingFrame, byte)
    IN IF byte # 0
       THEN [r EXCEPT !.incomingFrame = pushed]
       ELSE [r EXCEPT !.incomingFrame = <<>>,
                      !.delivered = Append(@, [frame |-> pushed,
                                               bufferAfter |-> <<>>])]

\* the loop over the bytes of one transferIn result
RECURSIVE ProcessData(_, _)
ProcessData(r, data) ==
    IF data = <<>>
    THEN r
    ELSE ProcessData(ProcessByte(r, Head(data)), Tail(data))

\* one transferIn resolves with status 'ok' and the bytes data
TransferIn(data) ==
    /\ Len(stream) + Len(data) <= MaxStream
    /\ LET r == ProcessData(Recv, data)
       IN /\ incomingFrame' = r.incomingFrame
          /\ delivered' = r.delivered
    /\ stream' = stream \o data
    /\ chunkEnds' = chunkEnds \cup {Len(stream) + Len(data)}
    /\ UNCHANGED <<sent, pendingBytes, dispVars, fetchVars, restVars>>

RecvInit ==
    /\ incomingFrame = <<>>
    /\ stream = <<>>
    /\ chunkEnds = {}
    /\ delivered = <<>>
    /\ sent = <<>>
    /\ pendingBytes = <<>>

RecvNext ==
    \E data \in (SeqsUpTo(WireBytes, MaxChunk) \ {<<>>}) : TransferIn(data)

(* ----------------------------------------------------------------------- *)
(* The wire codec                                                          *)
(* ----------------------------------------------------------------------- *)

\* the tag byte of a CallRequest, ASCII 'R'
TAG_CALL_REQUEST == 82

\* the little-endian bytes of a 16-bit and of a 32-bit integer
U16Bytes(v) == <<v % 256, (v \div 256) % 256>>

U32Bytes(v) ==
    <<v % 256, (v \div 256) % 256, (v \div 65536) % 256,
      (v \div 16777216) % 256>>

U16At(b, i) == b[i] + 256 * b[i + 1]

U32At(b, i) ==
    b[i] + 256 * b[i + 1] + 65536 * b[i + 2] + 16777216 * b[i + 3]

RECURSIVE ArgBytes(_)
ArgBytes(args) ==
    IF args = <<>> THEN <<>> ELSE U32Bytes(Head(args)) \o ArgBytes(Tail(args))

\* the payload of a CallRequest: tag, request_id, machine_index,
\* function_index, arg_count, args
EncodeCallRequest(m) ==
    <<TAG_CALL_REQUEST>> \o U16Bytes(m.requestId) \o U16Bytes(m.machineIndex)
        \o U16Bytes(m.functionIndex) \o U16Bytes(Len(m.args))
        \o ArgBytes(m.args)

\* the frame on the wire: the payload and the 0x00 terminator, no byte
\* stuffing
FrameOf(payload) == Append(payload, 0)

\* the codec strips the terminator a frame ends with
StripTerminator(frame) ==
    IF frame # <<>> /\ frame[Len(frame)] = 0
    THEN SubSeq(frame, 1, Len(frame) - 1)
    ELSE frame

\* <<the CallRequest the payload holds>>, or <<>> when it holds none
DecodeCallRequest(payload) ==
    IF Len(payload) < 9 \/ payload[1] # TAG_CALL_REQUEST
    THEN <<>>
    ELSE LET count == U16At(payload, 8)
         IN IF Len(payload) # 9 + 4 * count
            THEN <<>>
            ELSE <<[requestId |-> U16At(payload, 2),
                    machineIndex |-> U16At(payload, 4),
                    functionIndex |-> U16At(payload, 6),
                    args |-> [i \in 1 .. count |->
                                 U32At(payload, 6 + 4 * i)]]>>

\* field values with and without 0x00 among their bytes
WireIds == {7, 257}

WireMachines == {1, 257}

WireFunctions == {2, 258}

WireArgs == {1, 16843009, 2059128029}

CallRequests ==
    [requestId : WireIds, machineIndex : WireMachines,
     functionIndex : WireFunctions, args : SeqsUpTo(WireArgs, MaxArgs)]

\* a CallRequest is encoded and its frame put on the wire
SendCallRequest(m) ==
    /\ sent = <<>>
    /\ sent' = <<m>>
    /\ pendingBytes' = FrameOf(EncodeCallRequest(m))
    /\ UNCHANGED <<incomingFrame, stream, chunkEnds, delivered, dispVars,
                   fetchVars, restVars>>

\* one transferIn resolves with the next bytes of the frame on the wire
WireTransferIn ==
    /\ pendingBytes # <<>>
    /\ LET n == IF Len(pendingBytes) < MaxChunk
                THEN Len(pendingBytes) ELSE MaxChunk
           data == SubSeq(pendingBytes, 1, n)
           r == ProcessData(Recv, data)
       IN /\ incomingFrame' = r.incomingFrame
          /\ delivered' = r.delivered
          /\ stream' = stream \o data
          /\ chunkEnds' = chunkEnds \cup {Len(stream) + n}
          /\ pendingBytes' = SubSeq(pendingBytes, n + 1, Len(pendingBytes))
    /\ UNCHANGED <<sent, dispVars, fetchVars, restVars>>

WireNext ==
    \/ \E m \in CallRequests : SendCallRequest(m)
    \/ WireTransferIn

(* ----------------------------------------------------------------------- *)
(* The Load Program button                                                 *)
(* ----------------------------------------------------------------------- *)

(* What the track list of the page can look like to                       *)
(* buildProgramSourceFromTracks: no track list element, no track with a    *)
(* machine selected, a selected machine without assembly, or sources.      *)
TrackStates == {"unavailable", "none", "missing", "ok"}

(* The editor's text: empty, blank, or a program. *)
EditorValues == {"", " ", "editor"}

(* String.prototype.trim on the texts of the model. *)
Trim(text) == IF text = " " THEN "" ELSE text

BuildProgramSourceFromTracks(tracks) ==
    IF tracks = "unavailable"
    THEN [source |-> "", error |-> TRUE, isEmpty |-> TRUE]
    ELSE IF tracks = "missing"
    THEN [source |-> "", error |-> TRUE, isEmpty |-> FALSE]
    ELSE IF tracks = "none"
    THEN [source |-> "", error |-> TRUE, isEmpty |-> TRUE]
    ELSE [source |-> "tracks", error |-> FALSE, isEmpty |-> FALSE]

(* The handler returned before its try block. *)
NotCompiled == [compiled |-> <<>>, loaded |-> <<>>]

(* As CompileAndLoad, but a throw inside the try block does not skip the   *)
(* load_program call.                                                      *)
CompileAndLoadDespiteThrow(source, compileThrows, gzipThrows) ==
    [compiled |-> <<source>>, loaded |-> <<source>>]

(* The try block of the handler: compile_program, buildCompressedUiState,  *)
(* deck.load_program; a throw of the first two skips what follows.         *)
CompileAndLoad(source, compileThrows, gzipThrows) ==
    [compiled |-> <<source>>,
     loaded |-> IF compileThrows \/ gzipThrows THEN <<>> ELSE <<source>>]

(* The click handler of loadProgramBtn. *)
LoadProgramHandler(hasEditor, tracks, editorValue, compileThrows, gzipThrows) ==
    LET built == BuildProgramSourceFromTracks(tracks)
        programSource == IF built.source # "" THEN built.source
                                             ELSE editorValue
    IN  IF ~hasEditor
        THEN IF built.error
             THEN NotCompiled
             ELSE CompileAndLoad(built.source, compileThrows, gzipThrows)
        ELSE IF built.error /\ ~built.isEmpty
             THEN NotCompiled
             ELSE IF built.error /\ Trim(programSource) = ""
             THEN NotCompiled
             ELSE CompileAndLoad(programSource, compileThrows, gzipThrows)

LoadProgramClick(hasEditor, tracks, editorValue, compileThrows, gzipThrows) ==
    /\ loadClicks < MaxClicks
    /\ LET r == LoadProgramHandler(hasEditor, tracks, editorValue,
                                   compileThrows, gzipThrows)
           built == BuildProgramSourceFromTracks(tracks)
       IN /\ loadClick' = <<[hasEditor |-> hasEditor,
                             error |-> built.error,
                             isEmpty |-> built.isEmpty,
                             editorValue |-> editorValue,
                             compileThrows |-> compileThrows,
                             gzipThrows |-> gzipThrows,
                             compiled |-> r.compiled,
                             loaded |-> r.loaded]>>
          /\ loadCalls' = loadCalls \o r.loaded
    /\ loadClicks' = loadClicks + 1
    /\ UNCHANGED <<dispVars, fetchVars, recvVars, vmVars, hostVars,
                   sliderVars, pageVars>>

LoadInit ==
    /\ loadClicks = 0
    /\ loadClick = <<>>
    /\ loadCalls = <<>>

LoadNext ==
    \E hasEditor \in BOOLEAN, tracks \in TrackStates,
       editorValue \in EditorValues,
       compileThrows \in BOOLEAN, gzipThrows \in BOOLEAN :
        LoadProgramClick(hasEditor, tracks, editorValue, compileThrows,
                         gzipThrows)

(* ----------------------------------------------------------------------- *)
(* The light_machine VM: words                                             *)
(* ----------------------------------------------------------------------- *)

(* A StackWord (u32) is the pair <<high half, low half>> of its two 16-bit  *)
(* halves, so that every intermediate value of the arithmetic below stays   *)
(* below 2^31.  A ProgramWord (u16) is a number in 0 .. 65535.              *)
ProgramWordModulus == 65536

ProgramWords == 0 .. (ProgramWordModulus - 1)

\* the StackWord of a number below 2^31 (zero-extension of a ProgramWord)
Word(n) == <<n \div ProgramWordModulus, n % ProgramWordModulus>>

ZeroWord == Word(0)

\* u32::MAX
MaxWord == <<ProgramWordModulus - 1, ProgramWordModulus - 1>>

IsStackWord(w) ==
    /\ w \in Seq(ProgramWords)
    /\ Len(w) = 2

\* the word fits a ProgramWord / a small index
FitsProgramWord(w) == w[1] = 0

\* lhs < rhs on u32
WordLess(lhs, rhs) ==
    \/ lhs[1] < rhs[1]
    \/ lhs[1] = rhs[1] /\ lhs[2] < rhs[2]

\* As WrappingAdd, but the sum saturates at u32::MAX instead of wrapping.
SaturatingAdd(lhs, rhs) ==
    LET lo == lhs[2] + rhs[2]
        hi == lhs[1] + rhs[1] + (lo \div ProgramWordModulus)
    IN IF hi >= ProgramWordModulus
       THEN MaxWord
       ELSE <<hi, lo % ProgramWordModulus>>

\* lhs + rhs (wrapping)
WrappingAdd(lhs, rhs) ==
    LET lo == lhs[2] + rhs[2]
        hi == lhs[1] + rhs[1] + (lo \div ProgramWordModulus)
    IN <<hi % ProgramWordModulus, lo % ProgramWordModulus>>

\* lhs - rhs (wrapping)
WrappingSub(lhs, rhs) ==
    LET lo == lhs[2] - rhs[2]
        borrow == IF lo < 0 THEN 1 ELSE 0
        hi == lhs[1] - rhs[1] - borrow
    IN <<(hi + ProgramWordModulus) % ProgramWordModulus,
         (lo + ProgramWordModulus) % ProgramWordModulus>>

\* x * y mod 2^16 and x * y div 2^16 for halves x, y, by the bytes of y
HalfMulLow(x, y) ==
    (x * (y % 256) + ((x * (y \div 256)) % 256) * 256) % ProgramWordModulus

HalfMulHigh(x, y) ==
    LET p1 == x * (y % 256)
        p2 == x * (y \div 256)
    IN (p2 \div 256) + (((p2 % 256) * 256 + p1) \div ProgramWordModulus)

\* lhs * rhs (wrapping)
WrappingMul(lhs, rhs) ==
    <<(HalfMulHigh(lhs[2], rhs[2]) + HalfMulLow(lhs[1], rhs[2])
          + HalfMulLow(lhs[2], rhs[1])) % ProgramWordModulus,
      HalfMulLow(lhs[2], rhs[2])>>

\* bit i (0 = least significant) of a word
WordBit(w, i) ==
    IF i >= 16 THEN (w[1] \div (2 ^ (i - 16))) % 2 ELSE (w[2] \div (2 ^ i)) % 2

\* the word with bit i set, bit i being clear in w
WithBit(w, i) ==
    IF i >= 16 THEN <<w[1] + 2 ^ (i - 16), w[2]>> ELSE <<w[1], w[2] + 2 ^ i>>

\* 2 * w + bit, and the bit shifted out at the top
ShiftIn(w, bit) ==
    LET lo == 2 * w[2] + bit
        hi == 2 * w[1] + (lo \div ProgramWordModulus)
    IN [word |-> <<hi % ProgramWordModulus, lo % ProgramWordModulus>>,
        carry |-> hi \div ProgramWordModulus]

\* u32 division, rhs # 0: binary long division from bit i downwards
RECURSIVE DivRem(_, _, _, _, _)
DivRem(lhs, rhs, i, quotient, remainder) ==
    IF i < 0
    THEN [quotient |-> quotient, remainder |-> remainder]
    ELSE LET shifted == ShiftIn(remainder, WordBit(lhs, i))
         IN IF shifted.carry = 1 \/ ~WordLess(shifted.word, rhs)
            THEN DivRem(lhs, rhs, i - 1, WithBit(quotient, i),
                        WrappingSub(shifted.word, rhs))
            ELSE DivRem(lhs, rhs, i - 1, quotient, shifted.word)

\* lhs / rhs and lhs % rhs for rhs # 0
WordDiv(lhs, rhs) == DivRem(lhs, rhs, 31, ZeroWord, ZeroWord).quotient

WordMod(lhs, rhs) == DivRem(lhs, rhs, 31, ZeroWord, ZeroWord).remainder

(* ----------------------------------------------------------------------- *)
(* The light_machine VM: the interpreter                                   *)
(* ----------------------------------------------------------------------- *)

(* One run of the interpreter on behalf of the host.  The code words of    *)
(* the program image are left open: every action executes one instruction, *)
(* so a behaviour is the instruction sequence of some program.  CALL and   *)
(* CALL_SHARED run the callee in a nested `run`; callFrames holds what the *)
(* nested invocations keep for step 8 of the calling convention.           *)

\* opcode words
OP_PUSH == 1
OP_POP == 0
OP_BREQ == 6
OP_MUL == 15
OP_DIV == 16
OP_MOD == 17
OP_ADD == 18
OP_SUB == 19
OP_LLOAD == 20
OP_LSTORE == 21
OP_GLOAD == 22
OP_GSTORE == 23
OP_LOAD_STATIC == 24
OP_JUMP == 25
OP_EXIT == 26
OP_CALL == 27
OP_CALL_SHARED == 28
OP_SLOAD == 29
OP_SSTORE == 30
OP_DUP == 31
OP_SWAP == 32
OP_RET == 33

\* stack cells `memory` provides behind the globals
STACK_CAPACITY == 6

(* A program image: header, instance table (two instances of type 0 with   *)
(* GLOBALS_BASE 0 and 1), type table (four functions), shared function     *)
(* table (two entries), function table.  Entry points lie behind it: the   *)
(* instructions of this image are left open.                               *)
TableImage ==
    <<2, 2, 2, 2, 1, 8, 12, 14,
      0, 0, 0, 1,
      4, 16,
      40, 50,
      20, 24, 28, 32>>

\* static_data[i], the image being indexed from 0
StaticAt(i) == static_data[i + 1]

\* header field [2]: the globals cells of `memory`
GLOBALS_SIZE == StaticAt(2)

MACHINE_COUNT == StaticAt(1)
SHARED_FUNCTION_COUNT == StaticAt(3)
INSTANCE_TABLE_OFFSET == StaticAt(5)
TYPE_TABLE_OFFSET == StaticAt(6)
SHARED_FUNCTION_TABLE_OFFSET == StaticAt(7)

\* GLOBALS_BASE of instance i
InstanceGlobalsBase(i) == StaticAt(INSTANCE_TABLE_OFFSET + 2 * i + 1)

\* FUNCTION_COUNT and the entry points of the type of instance i
InstanceType(i) == StaticAt(INSTANCE_TABLE_OFFSET + 2 * i)

FunctionCount(type) == StaticAt(TYPE_TABLE_OFFSET + 2 * type)

FunctionEntry(type, f) ==
    StaticAt(StaticAt(TYPE_TABLE_OFFSET + 2 * type + 1) + f)

SharedEntry(f) == StaticAt(SHARED_FUNCTION_TABLE_OFFSET + f)

\* the interpreter state as a record
Vm ==
    [stack |-> vmStack, globals |-> globals,
     frame_pointer |-> frame_pointer, mlp |-> mlp, machine |-> machine,
     pc |-> pc, callFrames |-> callFrames, error |-> vmError,
     exited |-> exited, access |-> <<>>]

SetVm(vm) ==
    /\ vmStack' = vm.stack
    /\ globals' = vm.globals
    /\ frame_pointer' = vm.frame_pointer
    /\ mlp' = vm.mlp
    /\ machine' = vm.machine
    /\ pc' = vm.pc
    /\ callFrames' = vm.callFrames
    /\ vmError' = vm.error
    /\ exited' = vm.exited

\* the run is aborted with a MachineError; word is the payload of InvalidOp
Fail(vm, kind, word) ==
    [vm EXCEPT !.error = <<[kind |-> kind, word |-> word]>>]

StackLen(vm) == Len(vm.stack)

Top(vm) == vm.stack[Len(vm.stack)]

Drop(vm) == [vm EXCEPT !.stack = SubSeq(@, 1, Len(@) - 1)]

Push(vm, value) ==
    IF StackLen(vm) >= STACK_CAPACITY
    THEN Fail(vm, "StackOverflow", Null)
    ELSE [vm EXCEPT !.stack = Append(@, value)]

Advance(vm, words) == [vm EXCEPT !.pc = @ + words]

(* `memory`: cells [0, GLOBALS_SIZE) are the globals, the cells behind     *)
(* them the stack.                                                         *)
MemRead(vm, cell) ==
    IF cell < GLOBALS_SIZE
    THEN vm.globals[cell + 1]
    ELSE IF cell - GLOBALS_SIZE < StackLen(vm)
    THEN vm.stack[cell - GLOBALS_SIZE + 1]
    ELSE ZeroWord

MemWrite(vm, cell, value) ==
    IF cell < GLOBALS_SIZE
    THEN [vm EXCEPT !.globals[cell + 1] = value]
    ELSE IF cell - GLOBALS_SIZE < StackLen(vm)
    THEN [vm EXCEPT !.stack[cell - GLOBALS_SIZE + 1] = value]
    ELSE vm

Accessing(vm, region, cell) ==
    [vm EXCEPT !.access = <<[region |-> region, cell |-> cell]>>]

\* As GlobalsInRange, but every cell of `memory` passes.
GlobalsInRangeUnchecked(cell) == TRUE

\* the bounds check of a globals access
GlobalsInRange(cell) == cell < GLOBALS_SIZE

\* the bounds check of SLOAD / SSTORE: a cell of the live stack (of the
\* stack errors the runtime can report, the one for this case is taken to be
\* StackUnderFlow)
StackInRange(vm, index) == index < StackLen(vm)

OpPush(vm, word) == Advance(Push(vm, Word(word)), 2)

OpPop(vm) ==
    IF StackLen(vm) = 0
    THEN Fail(vm, "PopOnEmptyStack", Null)
    ELSE Advance(Drop(vm), 1)

\* the result word of an arithmetic opcode
Arithmetic(opcode, lhs, rhs) ==
    CASE opcode = OP_ADD -> WrappingAdd(lhs, rhs)
      [] opcode = OP_SUB -> WrappingSub(lhs, rhs)
      [] opcode = OP_MUL -> WrappingMul(lhs, rhs)
      [] opcode = OP_DIV -> WordDiv(lhs, rhs)
      [] opcode = OP_MOD -> WordMod(lhs, rhs)

\* pop lhs, rhs; push the opcode's result.  rhs is the top of the stack and
\* lhs the value below it: `DUP; PUSH 2000; MOD` of the default program is
\* tick % 2000 and `PUSH 2000; SWAP; SUB` is 2000 - x
Binary(vm, opcode) ==
    IF StackLen(vm) = 0
    THEN Fail(vm, "PopOnEmptyStack", Null)
    ELSE IF StackLen(vm) = 1
    THEN Fail(Drop(vm), "PopOnEmptyStack", Null)
    ELSE LET rhs == Top(vm)
             lhs == Top(Drop(vm))
         IN Advance(Push(Drop(Drop(vm)), Arithmetic(opcode, lhs, rhs)), 1)

OpAdd(vm) == Binary(vm, OP_ADD)

OpSub(vm) == Binary(vm, OP_SUB)

OpMul(vm) == Binary(vm, OP_MUL)

\* DIV and MOD: pop lhs, rhs; a zero rhs is InvalidOp(opcode word)
Divide(vm, opcode) ==
    IF StackLen(vm) >= 2 /\ Top(vm) = ZeroWord
    THEN Fail(Drop(Drop(vm)), "InvalidOp", opcode)
    ELSE Binary(vm, opcode)

OpDiv(vm) == Divide(vm, OP_DIV)

OpMod(vm) == Divide(vm, OP_MOD)

OpSload(vm, offset) ==
    LET index == vm.frame_pointer + offset
    IN IF ~StackInRange(vm, index)
       THEN Fail(vm, "StackUnderFlow", Null)
       ELSE Advance(Push(Accessing(vm, "memory", GLOBALS_SIZE + index),
                         vm.stack[index + 1]), 2)

OpSstore(vm, offset) ==
    LET index == vm.frame_pointer + offset
    IN IF StackLen(vm) = 0
       THEN Fail(vm, "PopOnEmptyStack", Null)
       ELSE IF ~StackInRange(vm, index)
       THEN Fail(vm, "StackUnderFlow", Null)
       ELSE Advance(Drop(Accessing(
                [vm EXCEPT !.stack[index + 1] = Top(vm)],
                "memory", GLOBALS_SIZE + index)), 2)

\* push globals[cell]
GlobalsLoad(vm, cell) ==
    IF ~GlobalsInRange(cell)
    THEN Fail(vm, "OutOfBoundsGlobalsAccess", Null)
    ELSE Advance(Push(Accessing(vm, "memory", cell), MemRead(vm, cell)), 2)

\* pop and store to globals[cell]
GlobalsStore(vm, cell) ==
    IF StackLen(vm) = 0
    THEN Fail(vm, "PopOnEmptyStack", Null)
    ELSE IF ~GlobalsInRange(cell)
    THEN Fail(Drop(vm), "OutOfBoundsGlobalsAccess", Null)
    ELSE Advance(Accessing(MemWrite(Drop(vm), cell, Top(vm)),
                           "memory", cell), 2)

OpLload(vm, offset) == GlobalsLoad(vm, vm.mlp + offset)

OpLstore(vm, offset) == GlobalsStore(vm, vm.mlp + offset)

\* As OpGload, but the address is relative to mlp, as that of LLOAD is.
OpGloadFromMlp(vm, addr) == GlobalsLoad(vm, vm.mlp + addr)

OpGload(vm, addr) == GlobalsLoad(vm, addr)

OpGstore(vm, addr) == GlobalsStore(vm, addr)

\* pop addr, push static_data[addr]
OpLoadStatic(vm) ==
    IF StackLen(vm) = 0
    THEN Fail(vm, "PopOnEmptyStack", Null)
    ELSE LET addr == Top(vm)
         IN IF ~FitsProgramWord(addr) \/ addr[2] >= Len(static_data)
            THEN Fail(Drop(vm), "OutOfBoudsStaticRead", Null)
            ELSE Advance(Push(Accessing(Drop(vm), "static_data", addr[2]),
                              Word(StaticAt(addr[2]))), 1)

\* As FramePointerAt, but pointing at the saved frame pointer.
FramePointerAtHeader(arg_start) == arg_start + 1

\* step 6 of the calling convention: frame_pointer points to arg0
FramePointerAt(arg_start) == arg_start + 2

\* As FrameHeader, with a third slot that saves mlp.
FrameHeaderWithMlp(vm, return_pc) ==
    <<Word(return_pc), Word(vm.frame_pointer), Word(vm.mlp)>>

\* steps 4 and 5 of the calling convention: the slots inserted at arg_start
FrameHeader(vm, return_pc) == <<Word(return_pc), Word(vm.frame_pointer)>>

\* steps 1 to 7 of the calling convention (the error for a function index
\* outside the type's function table has no name among the runtime errors
\* listed; it is called FunctionIndexOutOfRange here)
OpCall(vm, shared) ==
    IF StackLen(vm) = 0
    THEN Fail(vm, "PopOnEmptyStack", Null)
    ELSE IF StackLen(vm) = 1
    THEN Fail(Drop(vm), "PopOnEmptyStack", Null)
    ELSE
    LET func_index == Top(vm)
        arg_count == Top(Drop(vm))
        popped == Drop(Drop(vm))
        stack_len == StackLen(popped)
        type == InstanceType(vm.machine)
        count == IF shared THEN SHARED_FUNCTION_COUNT
                           ELSE FunctionCount(type)
    IN  IF ~FitsProgramWord(func_index)
        THEN Fail(popped, "StackValueTooLargeForProgramWord", Null)
        ELSE IF func_index[2] >= count
        THEN Fail(popped, IF shared THEN "SharedFunctionIndexOutOfRange"
                                    ELSE "FunctionIndexOutOfRange", Null)
        ELSE IF ~FitsProgramWord(arg_count) \/ arg_count[2] > stack_len
        THEN Fail(popped, "TwoFewArguments", Null)
        ELSE IF stack_len + 2 > STACK_CAPACITY
        THEN Fail(popped, "StackOverflow", Null)
        ELSE
        LET arg_start == stack_len - arg_count[2]
            return_pc == vm.pc + 1
        IN [popped EXCEPT
               !.stack = SubSeq(@, 1, arg_start)
                            \o FrameHeader(vm, return_pc)
                            \o SubSeq(@, arg_start + 1, stack_len),
               !.frame_pointer = FramePointerAt(arg_start),
               !.pc = IF shared THEN SharedEntry(func_index[2])
                                ELSE FunctionEntry(type, func_index[2]),
               !.callFrames = Append(@,
                   [return_pc |-> return_pc,
                    frame_pointer |-> vm.frame_pointer,
                    arg_start |-> arg_start,
                    arg_count |-> arg_count[2]])]

\* As RetStack, but the frame header stays on the stack.
RetStackKeepHeader(vm, count) ==
    SubSeq(vm.stack, 1, vm.frame_pointer)
        \o SubSeq(vm.stack, StackLen(vm) - count + 1, StackLen(vm))

\* RET: copy <count> values from top-of-stack, remove frame header and
\* body, push the copied values
RetStack(vm, count) ==
    SubSeq(vm.stack, 1, vm.frame_pointer - 2)
        \o SubSeq(vm.stack, StackLen(vm) - count + 1, StackLen(vm))

\* As RestoreFrame, but only RET's own restore from the frame header is
\* applied.
RestoreFrameFromHeader(vm, saved) ==
    [vm EXCEPT !.frame_pointer = saved.frame_pointer,
               !.pc = saved.return_pc,
               !.callFrames = SubSeq(@, 1, Len(@) - 1)]

\* step 8 of the calling convention: on return from the nested run the
\* caller's frame_pointer is restored and execution resumes at return_pc
RestoreFrame(vm, saved) ==
    LET frame == vm.callFrames[Len(vm.callFrames)]
    IN [vm EXCEPT !.frame_pointer = frame.frame_pointer,
                  !.pc = frame.return_pc,
                  !.callFrames = SubSeq(@, 1, Len(@) - 1)]

\* RET <count>
OpRet(vm, count) ==
    LET fp == vm.frame_pointer
    IN IF fp < 2 \/ fp > StackLen(vm) \/ count > StackLen(vm)
          \/ vm.callFrames = <<>>
       THEN Fail(vm, "StackUnderFlow", Null)
       ELSE LET return_pc == vm.stack[fp - 1]
                saved_frame_pointer == vm.stack[fp]
            IN RestoreFrame(
                   [vm EXCEPT !.stack = RetStack(vm, count)],
                   [return_pc |-> return_pc[2],
                    frame_pointer |-> saved_frame_pointer[2]])

\* EXIT: return from the current run invocation without frame unwind
OpExit(vm) ==
    IF vm.callFrames = <<>>
    THEN [vm EXCEPT !.exited = TRUE]
    ELSE RestoreFrame(vm, vm.callFrames[Len(vm.callFrames)])

\* DUP: duplicate top
OpDup(vm) ==
    IF StackLen(vm) = 0
    THEN Fail(vm, "PopOnEmptyStack", Null)
    ELSE Advance(Push(vm, Top(vm)), 1)

\* SWAP: swap top two values
OpSwap(vm) ==
    IF StackLen(vm) < 2
    THEN Fail(vm, "PopOnEmptyStack", Null)
    ELSE Advance(Push(Push(Drop(Drop(vm)), Top(vm)), Top(Drop(vm))), 1)

\* JUMP: pop addr, set pc = addr
OpJump(vm) ==
    IF StackLen(vm) = 0
    THEN Fail(vm, "PopOnEmptyStack", Null)
    ELSE IF ~FitsProgramWord(Top(vm))
    THEN Fail(Drop(vm), "StackValueTooLargeForProgramWord", Null)
    ELSE [Drop(vm) EXCEPT !.pc = Top(vm)[2]]

\* BREQ: pop addr, pop lhs, pop rhs; if lhs == rhs, jump to addr
OpBreq(vm) ==
    IF StackLen(vm) < 3
    THEN Fail(vm, "PopOnEmptyStack", Null)
    ELSE LET addr == Top(vm)
             rhs == Top(Drop(vm))
             lhs == Top(Drop(Drop(vm)))
             popped == Drop(Drop(Drop(vm)))
         IN IF ~FitsProgramWord(addr)
            THEN Fail(popped, "StackValueTooLargeForProgramWord", Null)
            ELSE IF lhs = rhs
            THEN [popped EXCEPT !.pc = addr[2]]
            ELSE Advance(popped, 1)

\* the opcodes followed by one immediate operand word
OperandOpcodes ==
    {OP_PUSH, OP_RET, OP_SLOAD, OP_SSTORE, OP_LLOAD, OP_LSTORE, OP_GLOAD,
     OP_GSTORE}

\* one step of `run`: the instruction at pc is fetched from the image and
\* executed; a word that is no opcode is InvalidOp(word)
Decode(vm) ==
    LET opcode == StaticAt(vm.pc)
        operand == StaticAt(vm.pc + 1)
    IN IF vm.pc >= Len(static_data)
          \/ (opcode \in OperandOpcodes /\ vm.pc + 1 >= Len(static_data))
       THEN Fail(vm, "OutOfBoudsStaticRead", Null)
       ELSE CASE opcode = OP_PUSH -> OpPush(vm, operand)
              [] opcode = OP_POP -> OpPop(vm)
              [] opcode = OP_DUP -> OpDup(vm)
              [] opcode = OP_SWAP -> OpSwap(vm)
              [] opcode = OP_ADD -> OpAdd(vm)
              [] opcode = OP_SUB -> OpSub(vm)
              [] opcode = OP_MUL -> OpMul(vm)
              [] opcode = OP_DIV -> OpDiv(vm)
              [] opcode = OP_MOD -> OpMod(vm)
              [] opcode = OP_SLOAD -> OpSload(vm, operand)
              [] opcode = OP_SSTORE -> OpSstore(vm, operand)
              [] opcode = OP_LLOAD -> OpLload(vm, operand)
              [] opcode = OP_LSTORE -> OpLstore(vm, operand)
              [] opcode = OP_GLOAD -> OpGload(vm, operand)
              [] opcode = OP_GSTORE -> OpGstore(vm, operand)
              [] opcode = OP_LOAD_STATIC -> OpLoadStatic(vm)
              [] opcode = OP_JUMP -> OpJump(vm)
              [] opcode = OP_BREQ -> OpBreq(vm)
              [] opcode = OP_CALL -> OpCall(vm, FALSE)
              [] opcode = OP_CALL_SHARED -> OpCall(vm, TRUE)
              [] opcode = OP_RET -> OpRet(vm, operand)
              [] opcode = OP_EXIT -> OpExit(vm)
              [] OTHER -> Fail(vm, "InvalidOp", opcode)

(* ------------------------------ VM actions ----------------------------- *)

\* one instruction is fetched and executed
Execute(next, opcode, operand) ==
    /\ vmError = <<>>
    /\ ~exited
    /\ vmFuel > 0
    /\ SetVm(next)
    /\ vmFuel' = vmFuel - 1
    /\ vmTrace' = Append(vmTrace, [op |-> opcode, operand |-> operand,
                                   access |-> next.access])
    /\ vmDepthSeen' = IF Len(next.callFrames) > vmDepthSeen
                      THEN Len(next.callFrames) ELSE vmDepthSeen
    /\ UNCHANGED <<static_data, dispVars, fetchVars, recvVars, loadVars,
                   hostVars, sliderVars, pageVars>>

PUSH(word) == Execute(OpPush(Vm, word), OP_PUSH, word)

POP == Execute(OpPop(Vm), OP_POP, Null)

\* the operands lhs, rhs an arithmetic instruction finds on the stack
Operands ==
    IF Len(vmStack) >= 2
    THEN <<vmStack[Len(vmStack) - 1], vmStack[Len(vmStack)]>>
    ELSE <<>>

ADD == Execute(OpAdd(Vm), OP_ADD, Operands)

SUB == Execute(OpSub(Vm), OP_SUB, Operands)

MUL == Execute(OpMul(Vm), OP_MUL, Operands)

DIV == Execute(OpDiv(Vm), OP_DIV, Operands)

MOD == Execute(OpMod(Vm), OP_MOD, Operands)

SLOAD(offset) == Execute(OpSload(Vm, offset), OP_SLOAD, offset)

SSTORE(offset) == Execute(OpSstore(Vm, offset), OP_SSTORE, offset)

LLOAD(offset) == Execute(OpLload(Vm, offset), OP_LLOAD, offset)

LSTORE(offset) == Execute(OpLstore(Vm, offset), OP_LSTORE, offset)

GLOAD(addr) == Execute(OpGload(Vm, addr), OP_GLOAD, addr)

GSTORE(addr) == Execute(OpGstore(Vm, addr), OP_GSTORE, addr)

LOAD_STATIC == Execute(OpLoadStatic(Vm), OP_LOAD_STATIC, Null)

\* the arguments a call finds below arg_count and func_index
Arguments ==
    IF Len(vmStack) >= 2 /\ FitsProgramWord(vmStack[Len(vmStack) - 1])
           /\ vmStack[Len(vmStack) - 1][2] <= Len(vmStack) - 2
    THEN SubSeq(vmStack, Len(vmStack) - 1 - vmStack[Len(vmStack) - 1][2],
                Len(vmStack) - 2)
    ELSE <<>>

CALL == Execute(OpCall(Vm, FALSE), OP_CALL, Arguments)

CALL_SHARED == Execute(OpCall(Vm, TRUE), OP_CALL_SHARED, Arguments)

RET(count) == Execute(OpRet(Vm, count), OP_RET, count)

EXIT == Execute(OpExit(Vm), OP_EXIT, Null)

\* the immediates the instructions of a behaviour carry
PushWords == {0, 1, 3}
Offsets == {0, 1, 2}
GlobalAddrs == {0, 1, 2}
RetCounts == {0, 1}

\* the arguments the host passes to an entry point: none, the operands of
\* a call of function 3 with two arguments, of function 3 with the operands
\* of a further call as its arguments, of a call without arguments, of a
\* call with more arguments than the stack holds, and of a call of a function
\* the tables do not have
HostArgs ==
    {<<>>,
     <<Word(10), Word(20), Word(2), Word(3)>>,
     <<Word(0), Word(1), Word(2), Word(3)>>,
     <<Word(0), Word(1)>>,
     <<Word(20), Word(3), Word(1)>>,
     <<Word(10), Word(1), Word(9)>>}

\* operands of the arithmetic instructions across the u32 range
ArithWords ==
    {Word(0), Word(1), Word(2), Word(65535), Word(65536), Word(305419896),
     <<32768, 0>>, <<65535, 65534>>, MaxWord}

\* the host has pushed args and starts instance i at an entry point; the run
\* executes at most fuel instructions
VmStart(args, i, fuel) ==
    /\ static_data = TableImage
    /\ hostCall = <<>>
    /\ hostLog = <<>>
    /\ vmStack = args
    /\ globals = [cell \in 1 .. GLOBALS_SIZE |-> ZeroWord]
    /\ frame_pointer = 0
    /\ machine = i
    /\ mlp = InstanceGlobalsBase(i)
    /\ pc = FunctionEntry(InstanceType(i), 0)
    /\ callFrames = <<>>
    /\ vmError = <<>>
    /\ exited = FALSE
    /\ vmFuel = fuel
    /\ vmTrace = <<>>
    /\ vmDepthSeen = 0

VmInit == VmStart(<<>>, 0, MaxCallSteps)

VmCallInit ==
    \E args \in HostArgs, i \in 0 .. (TableImage[2] - 1) :
        VmStart(args, i, MaxCallSteps)

VmMemInit ==
    \E args \in HostArgs, i \in 0 .. (TableImage[2] - 1) :
        VmStart(args, i, MaxMemSteps)

VmArithInit ==
    \E lhs \in ArithWords, rhs \in ArithWords :
        VmStart(<<lhs, rhs>>, 0, MaxArithSteps)

VmCallNext ==
    \/ \E word \in PushWords : PUSH(word)
    \/ POP
    \/ ADD
    \/ \E offset \in Offsets : SLOAD(offset)
    \/ CALL
    \/ CALL_SHARED
    \/ \E count \in RetCounts : RET(count)
    \/ EXIT

VmMemNext ==
    \/ \E offset \in Offsets : SLOAD(offset)
    \/ \E offset \in Offsets : SSTORE(offset)
    \/ \E offset \in Offsets : LLOAD(offset)
    \/ \E offset \in Offsets : LSTORE(offset)
    \/ \E addr \in GlobalAddrs : GLOAD(addr)
    \/ \E addr \in GlobalAddrs : GSTORE(addr)
    \/ LOAD_STATIC
    \/ CALL

VmArithNext ==
    \/ ADD
    \/ SUB
    \/ MUL
    \/ DIV
    \/ MOD

VmNext == VmCallNext \/ VmMemNext \/ VmArithNext

(* ----------------------------------------------------------------------- *)
(* The host render driver                                                  *)
(* ----------------------------------------------------------------------- *)

(* The image of the default program of initDeck: one instance of one type  *)
(* with 5 locals and the functions init (entry 17), start_frame (42),      *)
(* get_rgb (45), set_rgb (117) and set_brightness (124), followed by the   *)
(* words of control_statics (127 .. 130).  An instruction with a label     *)
(* operand is PUSH <address> followed by the instruction; the label `even` *)
(* is word 67.                                                             *)
DefaultProgram ==
    <<2, 1, 5, 0, 1, 8, 10, 12, 0, 0, 5, 12,
      17, 42, 45, 117, 124, 1, 127, 24, 21, 0, 1, 128,
      24, 21, 1, 1, 129, 24, 21, 2, 1, 130, 24, 21,
      3, 1, 0, 21, 4, 26, 21, 4, 26, 20, 4, 31,
      1, 2000, 17, 32, 1, 2000, 16, 1, 2, 17, 1, 0,
      1, 67, 6, 1, 2000, 32, 19, 31, 15, 1, 42, 15,
      1, 4000, 16, 1, 18000, 18, 31, 20, 0, 15, 1, 60000,
      16, 20, 3, 15, 1, 100, 16, 31, 20, 1, 15, 1,
      60000, 16, 20, 3, 15, 1, 100, 16, 20, 2, 15, 1,
      60000, 16, 20, 3, 15, 1, 100, 16, 26, 21, 2, 21,
      1, 21, 0, 26, 21, 3, 26, 8, 16, 32, 100>>

(* The image of a program with two instances of distinct types, instance 0 *)
(* of type 0 with GLOBALS_BASE 1 and instance 1 of type 1 with             *)
(* GLOBALS_BASE 2, and six shared functions.  Type 0:                      *)
(*   0 init         32: PUSH 42; GSTORE 0; EXIT                            *)
(*   1 start_frame  37: LSTORE 0; EXIT                                     *)
(*   2 get_color    40: LLOAD 0; SWAP; PUSH 60; SWAP; DIV; PUSH 32; EXIT   *)
(*   3              50: PUSH 0; CALL_SHARED 5; EXIT                        *)
(*   4              56: loop: JUMP loop                                    *)
(*   5              59: PUSH 0; CALL 5; EXIT                               *)
(* Type 1:                                                                 *)
(*   0 init         65: EXIT                                               *)
(*   1 start_frame  37                                                     *)
(*   2 get_color    66: PUSH 255; ADD; PUSH 1; PUSH 2; EXIT                *)
(*   3              50                                                     *)
(* Shared functions 0 .. 4 are RET 0 (74), shared function 5 is            *)
(* GLOAD 0; RET 1 (76).                                                    *)
ScenarioProgram ==
    <<2, 2, 3, 6, 2, 8, 12, 16, 0, 1, 1, 2,
      6, 22, 4, 28, 74, 74, 74, 74, 74, 76, 32, 37,
      40, 50, 56, 59, 65, 37, 66, 50, 1, 42, 23, 0,
      26, 21, 0, 26, 20, 0, 32, 1, 60, 32, 16, 1,
      32, 26, 1, 0, 1, 5, 28, 26, 1, 56, 25, 1,
      0, 1, 5, 27, 26, 26, 1, 255, 18, 1, 1, 1,
      2, 26, 33, 0, 22, 0, 33, 1>>

\* function index convention used by host helpers
INIT_FUNCTION == 0
START_FRAME_FUNCTION == 1
GET_COLOR_FUNCTION == 2

\* largest value of a colour channel
MAX_CHANNEL == 255

\* As FreshStack, but the arguments are pushed on the stack the previous run
\* left.
PushedOnStack(stack, args) == stack \o args

\* the stack of a new run holds the arguments the helper pushed: the stack
\* top index is state of one invocation
FreshStack(stack, args) == args

\* the execution state of a new run of function f of instance i
RunStart(vm, i, f, args) ==
    [vm EXCEPT !.stack = FreshStack(vm.stack, args),
               !.frame_pointer = 0,
               !.machine = i,
               !.mlp = InstanceGlobalsBase(i),
               !.pc = FunctionEntry(InstanceType(i), f),
               !.callFrames = <<>>,
               !.error = <<>>,
               !.exited = FALSE]

\* the run has left Executing: Exited or Failed
Ended(vm) == vm.exited \/ vm.error # <<>>

\* As GetColor, but the three values are read as r, g, b from the top.
GetColorTopFirst(stack) ==
    IF Len(stack) # 3
    THEN [kind |-> "violation"]
    ELSE IF \E i \in 1 .. 3 : WordLess(Word(MAX_CHANNEL), stack[i])
    THEN [kind |-> "error",
          error |-> [kind |-> "ColorOutOfRange", word |-> Null]]
    ELSE [kind |-> "color",
          r |-> stack[3][2], g |-> stack[2][2], b |-> stack[1][2]]

\* get_color on EXIT: exactly three values, top-to-bottom b, g, r, each at
\* most 255, else ColorOutOfRange.  What the helper reports for another
\* number of values has no name; it is no colour.
GetColor(stack) ==
    IF Len(stack) # 3
    THEN [kind |-> "violation"]
    ELSE IF \E i \in 1 .. 3 : WordLess(Word(MAX_CHANNEL), stack[i])
    THEN [kind |-> "error",
          error |-> [kind |-> "ColorOutOfRange", word |-> Null]]
    ELSE [kind |-> "color",
          r |-> stack[1][2], g |-> stack[2][2], b |-> stack[3][2]]

\* what a helper returns to its caller when its run has ended
HelperResult(helper, vm) ==
    IF vm.error # <<>>
    THEN [kind |-> "error", error |-> vm.error[1]]
    ELSE CASE helper = "init" ->
                  IF vm.stack = <<>> THEN [kind |-> "done"]
                                     ELSE [kind |-> "violation"]
           [] helper = "start_frame" -> [kind |-> "done"]
           [] helper = "get_color" -> GetColor(vm.stack)
           [] helper = "call" -> [kind |-> "values", values |-> vm.stack]

\* a helper pushes its arguments and invokes function f of instance i
HostStart(helper, i, f, args, limit) ==
    /\ hostCall = <<>>
    /\ Len(hostLog) < limit
    /\ SetVm(RunStart(Vm, i, f, args))
    /\ hostCall' = <<[helper |-> helper, instance |-> i, function |-> f,
                      args |-> args, globals |-> globals, left |-> vmStack]>>
    /\ UNCHANGED <<static_data, hostLog, vmFuel, vmTrace, vmDepthSeen,
                   dispVars, fetchVars, recvVars, loadVars, sliderVars,
                   pageVars>>

init(i, limit) == HostStart("init", i, INIT_FUNCTION, <<>>, limit)

start_frame(i, tick, limit) ==
    HostStart("start_frame", i, START_FRAME_FUNCTION, <<Word(tick)>>, limit)

get_color(i, led_index, limit) ==
    HostStart("get_color", i, GET_COLOR_FUNCTION, <<Word(led_index)>>, limit)

call(i, f, args, limit) == HostStart("call", i, f, args, limit)

\* `run` executes one instruction; when the run has ended the helper
\* returns its result to the host
run ==
    /\ hostCall # <<>>
    /\ LET next == Decode(Vm)
       IN /\ SetVm(next)
          /\ IF Ended(next)
             THEN /\ hostLog' = Append(hostLog,
                                       [call |-> hostCall[1],
                                        stack |-> next.stack,
                                        exited |-> next.exited,
                                        result |-> HelperResult(
                                            hostCall[1].helper, next)])
                  /\ hostCall' = <<>>
             ELSE UNCHANGED hostVars
    /\ UNCHANGED <<static_data, vmFuel, vmTrace, vmDepthSeen, dispVars,
                   fetchVars, recvVars, loadVars, sliderVars, pageVars>>

\* the instances of the image and the user-defined functions of one
Instances == 0 .. (MACHINE_COUNT - 1)

UserFunctions(i) == 3 .. (FunctionCount(InstanceType(i)) - 1)

\* the ticks, LED indexes and argument vectors the host passes
Ticks == {7, 3000}
LedIndexes == {0, 2}
CallArgs == {<<>>, <<Word(255), Word(0), Word(0)>>}

\* the program is constructed and no helper has been called
HostLoaded(image) ==
    /\ static_data = image
    /\ hostCall = <<>>
    /\ hostLog = <<>>
    /\ vmStack = <<>>
    /\ globals = [cell \in 1 .. GLOBALS_SIZE |-> ZeroWord]
    /\ frame_pointer = 0
    /\ machine = 0
    /\ mlp = InstanceGlobalsBase(0)
    /\ pc = FunctionEntry(InstanceType(0), INIT_FUNCTION)
    /\ callFrames = <<>>
    /\ vmError = <<>>
    /\ exited = FALSE
    /\ vmFuel = 0
    /\ vmTrace = <<>>
    /\ vmDepthSeen = 0

RenderNext ==
    \/ \E i \in Instances : init(i, MaxRuns)
    \/ \E i \in Instances, tick \in Ticks : start_frame(i, tick, MaxRuns)
    \/ \E i \in Instances, led_index \in LedIndexes :
           get_color(i, led_index, MaxRuns)
    \/ \E i \in Instances : \E f \in UserFunctions(i), args \in CallArgs :
           call(i, f, args, MaxRuns)
    \/ run

\* the host calls user-defined functions only
CallNext ==
    \/ \E i \in Instances : \E f \in UserFunctions(i), args \in CallArgs :
           call(i, f, args, MaxRuns)
    \/ run

DefaultNext ==
    \/ \E i \in Instances : init(i, MaxDefaultRuns)
    \/ \E i \in Instances, tick \in Ticks :
           start_frame(i, tick, MaxDefaultRuns)
    \/ \E i \in Instances, led_index \in LedIndexes :
           get_color(i, led_index, MaxDefaultRuns)
    \/ run

(* ----------------------------------------------------------------------- *)
(* The slider dispatcher of the earlier deck.js                            *)
(* ----------------------------------------------------------------------- *)

\* the slider and the colour buttons call function 0 of machine 0
SLIDER_MACHINE == 0
SLIDER_FUNCTION == 0

\* the dispatcher state with pendingColor and the scheduled sends; the
\* colour of the n-th UI event is named n
Slider ==
    [d |-> Disp, pendingColor |-> pendingColor, sendTimers |-> sendTimers]

SetSlider(s) ==
    /\ SetDisp(s.d)
    /\ pendingColor' = s.pendingColor
    /\ sendTimers' = s.sendTimers

\* scheduleSend(color): setTimeout(() => sendSliderColor(color), 0)
scheduleSend(s, color) == [s EXCEPT !.sendTimers = Append(@, color)]

\* sendSliderColor(color); ok is the outcome of deck.call
sendSliderColor(s, color, ok) ==
    LET called == DeckCall(s.d, SLIDER_MACHINE, SLIDER_FUNCTION, color, ok)
    IN IF ok
       THEN [s EXCEPT !.d = SetPendingTimeout(
                [called EXCEPT !.pendingRequestId = s.d.nextRequestId])]
       ELSE [s EXCEPT !.d = called]

\* const next = pendingColor; pendingColor = null; scheduleSend(next)
SendPendingColor(s) ==
    IF s.pendingColor # <<>>
    THEN scheduleSend([s EXCEPT !.pendingColor = <<>>], s.pendingColor[1])
    ELSE s

\* resolvePending(requestId) of the slider dispatcher
resolvePending(s, requestId) ==
    IF s.d.pendingRequestId = Null \/ s.d.pendingRequestId # requestId
    THEN s
    ELSE LET cleared == IF s.d.pendingTimer # Null
                        THEN [ClearTimeout(s.d) EXCEPT !.pendingTimer = Null]
                        ELSE s.d
         IN SendPendingColor(
                [s EXCEPT !.d = [cleared EXCEPT !.pendingRequestId = Null]])

\* the callback armed by setPendingTimeout of the slider dispatcher
SliderWatchdogCallback(s) ==
    LET fired == [s EXCEPT !.d.pendingTimer = Null]
    IN IF fired.d.pendingRequestId # Null
       THEN SendPendingColor([fired EXCEPT !.d.pendingRequestId = Null])
       ELSE fired

\* the slider's input handler
SliderInput(ok) ==
    /\ callCount < MaxInputs
    /\ callCount' = callCount + 1
    /\ LET color == callCount + 1
           s == Slider
       IN SetSlider(IF pendingRequestId # Null
                    THEN [s EXCEPT !.pendingColor = <<color>>]
                    ELSE sendSliderColor(s, color, ok))
    /\ UNCHANGED <<fetchVars, recvVars, loadVars, vmVars, hostVars, pageVars>>

\* the click handler of a colour button: deck.call(0, 0, ...) and nothing
\* else
ColorButtonClick(ok) ==
    /\ callCount < MaxInputs
    /\ callCount' = callCount + 1
    /\ SetSlider([Slider EXCEPT
           !.d = DeckCall(@, SLIDER_MACHINE, SLIDER_FUNCTION,
                          callCount + 1, ok)])
    /\ UNCHANGED <<fetchVars, recvVars, loadVars, vmVars, hostVars, pageVars>>

\* the device's CallReturn for the oldest unanswered request is decoded and
\* DeckReceiveHandler.onReturn runs
SliderOnReturn ==
    /\ awaiting # <<>>
    /\ SetSlider(resolvePending(
           [Slider EXCEPT
               !.d.awaiting = Tail(@),
               !.d.inFlight = {r \in @ : r.requestId # Head(awaiting)}],
           Head(awaiting)))
    /\ UNCHANGED <<callCount, fetchVars, recvVars, loadVars, vmVars,
                   hostVars, pageVars>>

\* the reply to the oldest unanswered request never reaches the host
SliderReplyLost ==
    /\ awaiting # <<>>
    /\ SetSlider([Slider EXCEPT !.d.awaiting = Tail(@)])
    /\ UNCHANGED <<callCount, fetchVars, recvVars, loadVars, vmVars,
                   hostVars, pageVars>>

\* the watchdog timer t expires and its callback runs
SliderWatchdogFires(t) ==
    /\ t \in timers
    /\ SetSlider(SliderWatchdogCallback(
           [Slider EXCEPT
               !.d.timers = @ \ {t},
               !.d.inFlight = {r \in @ : r.requestId # t.req}]))
    /\ UNCHANGED <<callCount, fetchVars, recvVars, loadVars, vmVars,
                   hostVars, pageVars>>

\* the oldest zero-delay callback of scheduleSend runs
ScheduledSend(ok) ==
    /\ sendTimers # <<>>
    /\ SetSlider(sendSliderColor(
           [Slider EXCEPT !.sendTimers = Tail(@)], Head(sendTimers), ok))
    /\ UNCHANGED <<callCount, fetchVars, recvVars, loadVars, vmVars,
                   hostVars, pageVars>>

\* the slider alone
SliderNext ==
    \/ \E ok \in BOOLEAN : SliderInput(ok)
    \/ SliderOnReturn
    \/ SliderReplyLost
    \/ \E t \in timers : SliderWatchdogFires(t)
    \/ \E ok \in BOOLEAN : ScheduledSend(ok)

\* the slider and the colour buttons
SliderUiNext == SliderNext \/ \E ok \in BOOLEAN : ColorButtonClick(ok)

(* ----------------------------------------------------------------------- *)
(* The USB connection                                                      *)
(* ----------------------------------------------------------------------- *)

(* connectUsbDevice, autoConnect and startUsbReceiveLoop are async: each    *)
(* runs to its next await in one step, and the step in which the awaited   *)
(* promise settles runs it to the await after that, or to its end.  Every  *)
(* plug-in gives the page a new USBDevice, named by its number.            *)

\* the bytes one transferIn result carries
LinkChunks == {<<1>>, <<2, 0>>}

\* the connection state as one record
Link ==
    [writer |-> writer, usbReadActive |-> usbReadActive,
     connectInFlight |-> connectInFlight,
     controlsEnabled |-> controlsEnabled, bodies |-> bodies,
     autos |-> autos, loops |-> loops, linkMark |-> linkMark,
     lastEnd |-> <<>>]

SetLink(k) ==
    /\ writer' = k.writer
    /\ usbReadActive' = k.usbReadActive
    /\ connectInFlight' = k.connectInFlight
    /\ controlsEnabled' = k.controlsEnabled
    /\ bodies' = k.bodies
    /\ autos' = k.autos
    /\ loops' = k.loops
    /\ linkMark' = k.linkMark
    /\ lastEnd' = k.lastEnd

\* handleDisconnect(message), called for the event cause of the device
handleDisconnect(k, cause, device) ==
    [k EXCEPT !.writer = Null,
              !.controlsEnabled = FALSE,
              !.lastEnd = <<[cause |-> cause, device |-> device,
                             writer |-> k.writer]>>]

\* startUsbReceiveLoop(device), up to its first await
startUsbReceiveLoop(k, device, id) ==
    IF k.usbReadActive
    THEN k
    ELSE IF k.writer = device
         THEN [k EXCEPT !.usbReadActive = TRUE,
                        !.loops = @ \cup {[id |-> id, device |-> device]}]
         ELSE k

\* connectUsbDevice(device), up to its first await
connectUsbDevice(k, device, via, id) ==
    IF k.connectInFlight
    THEN k
    ELSE [k EXCEPT !.connectInFlight = TRUE,
                   !.bodies = @ \cup {[id |-> id, device |-> device,
                                       via |-> via, stage |-> "open"]}]

\* the finally clause of autoConnect
AutoConnectFinally(k) == [k EXCEPT !.connectInFlight = FALSE]

\* an await of the body b of connectUsbDevice rejects: its finally clause
\* runs, then the catch clause of connect() or the finally clause of
\* autoConnect
BodyThrows(k, b) ==
    LET left == [k EXCEPT !.bodies = @ \ {b}, !.connectInFlight = FALSE]
    IN IF b.via = "click"
       THEN [left EXCEPT !.controlsEnabled = FALSE]
       ELSE AutoConnectFinally(left)

\* the body b of connectUsbDevice from `writer = ...` to its end, with
\* mark what has been read so far
BodyCompletes(k, b, mark) ==
    LET set == [k EXCEPT !.writer = b.device, !.linkMark = <<mark>>]
        looped == startUsbReceiveLoop(set, b.device, b.id)
        done == [looped EXCEPT !.controlsEnabled = TRUE,
                               !.bodies = @ \ {b},
                               !.connectInFlight = FALSE]
    IN IF b.via = "click" THEN done ELSE AutoConnectFinally(done)

(* -------------------------- connection actions ------------------------- *)

\* a device is plugged in; the 'connect' listener calls autoConnect, which
\* awaits getDevices
Attach ==
    /\ devices < MaxDevices
    /\ tries < MaxTries
    /\ devices' = devices + 1
    /\ tries' = tries + 1
    /\ attached' = attached \cup {devices + 1}
    /\ SetLink([Link EXCEPT !.autos = @ + 1])
    /\ UNCHANGED <<dispVars, fetchVars, recvVars, loadVars, vmVars, hostVars,
                   sliderVars, pageRest>>

\* getDevices resolves for an autoConnect: with no device autoConnect
\* returns, else it calls connectUsbDevice(devices[0])
AutoGotDevices ==
    /\ autos > 0
    /\ \/ /\ attached = {}
          /\ SetLink(AutoConnectFinally([Link EXCEPT !.autos = @ - 1]))
       \/ \E d \in attached :
              LET k == [Link EXCEPT !.autos = @ - 1]
              IN SetLink(IF k.connectInFlight
                         THEN AutoConnectFinally(k)
                         ELSE connectUsbDevice(k, d, "auto", tries))
    /\ UNCHANGED <<attached, devices, tries, dispVars, fetchVars, recvVars,
                   loadVars, vmVars, hostVars, sliderVars, pageRest>>

\* the Connect button: requestDevice resolves with the device d and
\* connect() calls connectUsbDevice(d)
ClickConnect(d) ==
    /\ d \in attached
    /\ tries < MaxTries
    /\ tries' = tries + 1
    /\ SetLink(connectUsbDevice(Link, d, "click", tries + 1))
    /\ UNCHANGED <<attached, devices, dispVars, fetchVars, recvVars, loadVars,
                   vmVars, hostVars, sliderVars, pageRest>>

\* device.open() settles for the body b
BodyOpened(b, ok) ==
    /\ b \in bodies
    /\ b.stage = "open"
    /\ ok => b.device \in attached
    /\ SetLink(IF ok
               THEN [Link EXCEPT !.bodies =
                        (@ \ {b}) \cup {[b EXCEPT !.stage = "claim"]}]
               ELSE BodyThrows(Link, b))
    /\ UNCHANGED <<attached, devices, tries, dispVars, fetchVars, recvVars,
                   loadVars, vmVars, hostVars, sliderVars, pageRest>>

\* device.claimInterface() settles for the body b; on success the body
\* runs to its end: writer, startUsbReceiveLoop, enableControls,
\* startUiStateFetch
BodyClaimed(b, ok) ==
    /\ b \in bodies
    /\ b.stage = "claim"
    /\ ok => b.device \in attached
    /\ IF ok
       THEN /\ SetLink(BodyCompletes(Link, b,
                           [stream |-> Len(stream),
                            delivered |-> Len(delivered),
                            reconnect |-> writer = Null /\ linkMark # <<>>]))
            /\ SetFetch(StartUiStateFetch(Fetch, TRUE))
       ELSE /\ SetLink(BodyThrows(Link, b))
            /\ UNCHANGED <<uiStateFetch, fetchTimers, wire, epochs,
                           requestLog, applied, ended, lastReply>>
    /\ UNCHANGED <<blob, blockSize, attached, devices, tries, dispVars,
                   recvVars, loadVars, vmVars, hostVars, sliderVars, pageRest>>

\* the transferIn of the receive loop l resolves with the bytes data; the
\* loop goes on while writer.device is its device
LoopTransferIn(l, data) ==
    /\ l \in loops
    /\ l.device \in attached
    /\ Len(stream) + Len(data) <= MaxStream
    /\ LET r == ProcessData(Recv, data)
       IN /\ incomingFrame' = r.incomingFrame
          /\ delivered' = r.delivered
    /\ stream' = stream \o data
    /\ chunkEnds' = chunkEnds \cup {Len(stream) + Len(data)}
    /\ SetLink(IF writer = l.device
               THEN Link
               ELSE [Link EXCEPT !.loops = @ \ {l},
                                 !.usbReadActive = FALSE])
    /\ UNCHANGED <<sent, pendingBytes, attached, devices, tries, dispVars,
                   fetchVars, loadVars, vmVars, hostVars, sliderVars, pageRest>>

\* the transferIn of the receive loop l rejects: handleDisconnect, break
LoopTransferInRejects(l) ==
    /\ l \in loops
    /\ l.device \notin attached
    /\ SetLink(handleDisconnect(
           [Link EXCEPT !.loops = @ \ {l}, !.usbReadActive = FALSE],
           "transferIn", l.device))
    /\ SetFetch(HandleDisconnect(Fetch))
    /\ UNCHANGED <<blob, blockSize, attached, devices, tries, dispVars,
                   recvVars, loadVars, vmVars, hostVars, sliderVars, pageRest>>

\* the device d is unplugged; the 'disconnect' listener calls
\* handleDisconnect
Detach(d) ==
    /\ d \in attached
    /\ attached' = attached \ {d}
    /\ SetLink(handleDisconnect(Link, "disconnect", d))
    /\ SetFetch(HandleDisconnect(Fetch))
    /\ UNCHANGED <<blob, blockSize, devices, tries, dispVars, recvVars,
                   loadVars, vmVars, hostVars, sliderVars, pageRest>>

LinkInit ==
    /\ writer = Null
    /\ usbReadActive = FALSE
    /\ connectInFlight = FALSE
    /\ controlsEnabled = FALSE
    /\ bodies = {}
    /\ autos = 0
    /\ loops = {}
    /\ attached = {}
    /\ devices = 0
    /\ tries = 0
    /\ linkMark = <<>>
    /\ lastEnd = <<>>


LinkNext ==
    \/ Attach
    \/ AutoGotDevices
    \/ \E d \in attached : ClickConnect(d)
    \/ \E b \in bodies, ok \in BOOLEAN : BodyOpened(b, ok)
    \/ \E b \in bodies, ok \in BOOLEAN : BodyClaimed(b, ok)
    \/ \E l \in loops, data \in LinkChunks : LoopTransferIn(l, data)
    \/ \E l \in loops : LoopTransferInRejects(l)
    \/ \E d \in attached : Detach(d)

(* ----------------------------------------------------------------------- *)
(* The send queue                                                          *)
(* ----------------------------------------------------------------------- *)

\* the frames a caller hands to send()
QueueValues == {<<7, 0>>, <<8, 0>>}

\* the AsyncQueue as a record
Queue == [values |-> values, resolvers |-> resolvers]

\* AsyncQueue.enqueue(value): the queue after the call and the dequeue call
\* whose promise it resolved, if any
enqueue(q, value) ==
    IF Len(q.resolvers) > 0
    THEN [q |-> [q EXCEPT !.resolvers = Tail(@)],
          resolved |-> <<Head(q.resolvers)>>]
    ELSE [q |-> [q EXCEPT !.values = Append(@, value)],
          resolved |-> <<>>]

\* a dequeue that takes the newest value
dequeueNewest(q, id) ==
    IF Len(q.values) > 0
    THEN [q |-> [q EXCEPT !.values = SubSeq(@, 1, Len(@) - 1)],
          promise |-> <<q.values[Len(q.values)]>>]
    ELSE [q |-> [q EXCEPT !.resolvers = Append(@, id)],
          promise |-> <<>>]

\* AsyncQueue.dequeue() as the dequeue call number id: the queue after the
\* call and <<the value>> of a resolved promise, or <<>> for a pending one
dequeue(q, id) ==
    IF Len(q.values) > 0
    THEN [q |-> [q EXCEPT !.values = Tail(@)],
          promise |-> <<Head(q.values)>>]
    ELSE [q |-> [q EXCEPT !.resolvers = Append(@, id)],
          promise |-> <<>>]

\* some caller enqueues the value v
Enqueue(v) ==
    /\ Len(enqLog) < MaxEnqueues
    /\ LET r == enqueue(Queue, v)
       IN /\ values' = r.q.values
          /\ resolvers' = r.q.resolvers
          /\ delivery' = IF r.resolved = <<>>
                         THEN delivery
                         ELSE [delivery EXCEPT ![r.resolved[1]] = <<v>>]
    /\ enqLog' = Append(enqLog, v)
    /\ UNCHANGED <<consumer, consumed, outLog, linkVars, restoreVars,
                   trackVars, dispVars, fetchVars, recvVars, loadVars,
                   vmVars, hostVars, sliderVars>>

\* some caller calls dequeue
Dequeue ==
    /\ Len(delivery) < MaxDequeues
    /\ LET r == dequeue(Queue, Len(delivery) + 1)
       IN /\ values' = r.q.values
          /\ resolvers' = r.q.resolvers
          /\ delivery' = Append(delivery, r.promise)
    /\ UNCHANGED <<enqLog, consumer, consumed, outLog, linkVars,
                   restoreVars, trackVars, dispVars, fetchVars, recvVars,
                   loadVars, vmVars, hostVars, sliderVars>>

QueueNext ==
    \/ \E v \in QueueValues : Enqueue(v)
    \/ Dequeue

\* the send queue and its consumer as a record
Sender ==
    [q |-> Queue, delivery |-> delivery, consumer |-> consumer,
     consumed |-> consumed, outLog |-> outLog]

SetSender(c) ==
    /\ values' = c.q.values
    /\ resolvers' = c.q.resolvers
    /\ delivery' = c.delivery
    /\ consumer' = c.consumer
    /\ consumed' = c.consumed
    /\ outLog' = c.outLog

\* a sendMessage that starts its transferOut and does not wait for it
sendMessageNoAwait(c, message, w) ==
    LET c1 == [c EXCEPT !.consumed =
                   Append(@, [k |-> message.k, message |-> message.bytes,
                              writer |-> w])]
    IN IF w = Null
       THEN [c1 EXCEPT !.consumer = "returned"]
       ELSE [c1 EXCEPT !.consumer = "returned",
                       !.outLog = Append(@, [k |-> message.k,
                                              message |-> message.bytes,
                                              device |-> w,
                                              settled |-> FALSE])]

\* sendMessage(message) while the writer is w, up to its await: it returns
\* at once when there is no writer, else it calls transferOut and waits
sendMessage(c, message, w) ==
    LET c1 == [c EXCEPT !.consumed =
                   Append(@, [k |-> message.k, message |-> message.bytes,
                              writer |-> w])]
    IN IF w = Null
       THEN [c1 EXCEPT !.consumer = "returned"]
       ELSE [c1 EXCEPT !.consumer = "transferOut",
                       !.outLog = Append(@, [k |-> message.k,
                                              message |-> message.bytes,
                                              device |-> w,
                                              settled |-> FALSE])]

\* consumeQueue from the head of its loop, while the writer is w, until it
\* awaits a pending promise: the dequeue of an empty queue or a transferOut
RECURSIVE consumeQueue(_, _)
consumeQueue(c, w) ==
    LET r == dequeue(c.q, Len(c.delivery) + 1)
        c1 == [c EXCEPT !.q = r.q, !.delivery = Append(@, r.promise)]
    IN IF r.promise = <<>>
       THEN [c1 EXCEPT !.consumer = "dequeue"]
       ELSE LET c2 == sendMessage(c1, r.promise[1], w)
            IN IF c2.consumer = "transferOut"
               THEN c2
               ELSE consumeQueue(c2, w)

\* the page calls consumeQueue()
ConsumeStart ==
    /\ consumer = "init"
    /\ SetSender(consumeQueue(Sender, writer))
    /\ SetLink(Link)
    /\ UNCHANGED <<enqLog, attached, devices, tries, restoreVars, trackVars,
                   dispVars, fetchVars, recvVars, loadVars, vmVars, hostVars,
                   sliderVars>>

\* send(temp_buffer) with the bytes v: the copy is enqueued; when the
\* consumer waits for it, it goes on with the copy
Send(v) ==
    /\ Len(enqLog) < MaxSends
    /\ LET message == [k |-> Len(enqLog) + 1, bytes |-> v]
           r == enqueue(Queue, message)
           c0 == [Sender EXCEPT !.q = r.q]
       IN /\ enqLog' = Append(enqLog, message)
          /\ IF r.resolved = <<>>
             THEN SetSender(c0)
             ELSE LET c1 == [c0 EXCEPT
                                !.delivery[r.resolved[1]] = <<message>>]
                      c2 == sendMessage(c1, message, writer)
                  IN SetSender(IF c2.consumer = "transferOut"
                               THEN c2
                               ELSE consumeQueue(c2, writer))
    /\ SetLink(Link)
    /\ UNCHANGED <<attached, devices, tries, restoreVars, trackVars,
                   dispVars, fetchVars, recvVars, loadVars, vmVars, hostVars,
                   sliderVars>>

\* the transferOut the consumer waits for settles: resolved (ok), or
\* rejected, and then sendMessage calls handleDisconnect; the consumer goes
\* on with its loop
TransferOutSettles(ok) ==
    /\ consumer = "transferOut"
    /\ LET last == outLog[Len(outLog)]
           k == IF ok
                THEN Link
                ELSE handleDisconnect(Link, "transferOut", last.device)
           c == [Sender EXCEPT !.outLog[Len(outLog)].settled = TRUE]
       IN /\ ok => last.device \in attached
          /\ SetLink(k)
          /\ SetSender(consumeQueue(c, k.writer))
          /\ IF ok
             THEN UNCHANGED <<uiStateFetch, fetchTimers, wire, epochs,
                              requestLog, applied, ended, lastReply>>
             ELSE SetFetch(HandleDisconnect(Fetch))
    /\ UNCHANGED <<enqLog, blob, blockSize, attached, devices, tries,
                   restoreVars, trackVars, dispVars, recvVars, loadVars,
                   vmVars, hostVars, sliderVars>>

SendNext ==
    \/ ConsumeStart
    \/ \E v \in QueueValues : Send(v)
    \/ \E ok \in BOOLEAN : TransferOutSettles(ok)
    \/ Attach
    \/ AutoGotDevices
    \/ \E b \in bodies, ok \in BOOLEAN : BodyOpened(b, ok)
    \/ \E b \in bodies, ok \in BOOLEAN : BodyClaimed(b, ok)

SendInit ==
    /\ values = <<>>
    /\ resolvers = <<>>
    /\ consumer = "init"
    /\ enqLog = <<>>
    /\ delivery = <<>>
    /\ consumed = <<>>
    /\ outLog = <<>>

(* ----------------------------------------------------------------------- *)
(* The control statics of a track                                          *)
(* ----------------------------------------------------------------------- *)

\* A line is its leading white space and its words; a text is its lines
\* and the line terminators between them, "\n" or "\r\n".
Line(indent, words) == [indent |-> indent, words |-> words]

Blank == Line(0, <<>>)

EmptyText == [lines |-> <<Blank>>, seps |-> <<>>]

CONTROL_STATIC_BLOCK == "control_statics"

\* the lines an assembly source is written with
SourceLines ==
    { Blank,
      Line(0, <<".machine", "m">>),
      Line(0, <<".func", "f">>),
      Line(0, <<".end">>),
      Line(2, <<".data", CONTROL_STATIC_BLOCK>>),
      Line(4, <<".word", "1">>) }

\* the sources: up to MaxLines lines, written with one kind of terminator
SourceTexts ==
    { [lines |-> l, seps |-> [i \in 1..(Len(l) - 1) |-> eol]] :
        l \in SeqsUpTo(SourceLines, MaxLines) \ {<<>>},
        eol \in {"\n", "\r\n"} }

\* the values of getTrackControlStatics: labels with their values
StaticsChoices ==
    { <<>>,
      <<[label |-> "init_a", value |-> "1"]>>,
      <<[label |-> "init_a", value |-> "2"],
        [label |-> "init_b", value |-> "1"]>> }

\* source.split(/\r?\n/)
SplitLines(text) == text.lines

\* lines.join('\n')
JoinLines(lines) ==
    IF lines = <<>>
    THEN EmptyText
    ELSE [lines |-> lines, seps |-> [i \in 1..(Len(lines) - 1) |-> "\n"]]

\* line.trim()
TrimLine(line) == line.words

\* text.trimEnd(): without the white space, blank lines and terminators at
\* its end
TrimEnd(text) ==
    LET filled == {i \in 1..Len(text.lines) : text.lines[i].words # <<>>}
    IN IF filled = {}
       THEN EmptyText
       ELSE LET last == CHOOSE i \in filled : \A j \in filled : j <= i
            IN [lines |-> SubSeq(text.lines, 1, last),
                seps |-> SubSeq(text.seps, 1, last - 1)]

\* the least index of a set of indexes, or -1: where a scan of the lines
\* from the first one stops
FirstOf(found) ==
    IF found = {}
    THEN -1
    ELSE CHOOSE i \in found : \A j \in found : i <= j

IsHeader(line) == TrimLine(line) = <<".data", CONTROL_STATIC_BLOCK>>

IsEnd(line) == TrimLine(line) = <<".end">>

\* lines.splice(start, count, ...items), indexes from 1
Splice(lines, start, count, items) ==
    SubSeq(lines, 1, start - 1) \o items
        \o SubSeq(lines, start + count, Len(lines))

\* a stripControlStaticsBlock that removes nothing
stripNothing(source) == source

\* stripControlStaticsBlock(source)
stripControlStaticsBlock(source) ==
    LET lines == SplitLines(source)
        startIndex == FirstOf({i \in 1..Len(lines) : IsHeader(lines[i])})
        endIndex == FirstOf({i \in (startIndex + 1)..Len(lines) :
                                IsEnd(lines[i])})
    IN IF startIndex = -1
       THEN source
       ELSE IF endIndex = -1
       THEN source
       ELSE JoinLines(Splice(lines, startIndex, endIndex - startIndex + 1,
                             <<>>))

\* the lines of one static of the block
StaticLines(static) ==
    << Line(4, <<static.label \o ":">>),
       Line(4, <<".word", static.value>>) >>

RECURSIVE AllStaticLines(_)
AllStaticLines(statics) ==
    IF statics = <<>>
    THEN <<>>
    ELSE StaticLines(Head(statics)) \o AllStaticLines(Tail(statics))

\* buildControlStaticsBlock(statics), as lines; <<>> is the empty string
buildControlStaticsBlock(statics) ==
    IF Len(statics) = 0
    THEN <<>>
    ELSE <<Line(0, <<".data", CONTROL_STATIC_BLOCK>>)>>
             \o AllStaticLines(statics) \o <<Line(0, <<".end">>)>>

\* the lines the new block is inserted before
IsInsertionPoint(line) ==
    /\ TrimLine(line) # <<>>
    /\ \/ TrimLine(line)[1] \in {".func", ".func_decl", ".data"}
       \/ TrimLine(line) = <<".end">>

\* injectControlStatics(source, statics)
injectControlStatics(source, statics) ==
    IF Len(statics) = 0
    THEN source
    ELSE LET cleaned == stripControlStaticsBlock(source)
             block == buildControlStaticsBlock(statics)
             lines == SplitLines(cleaned)
             insertIndex == FirstOf({i \in 1..Len(lines) :
                                         IsInsertionPoint(lines[i])})
             trimmed == TrimEnd(cleaned)
         IN IF block = <<>>
            THEN cleaned
            ELSE IF insertIndex = -1
            THEN [lines |-> trimmed.lines \o block \o <<Blank>>,
                  seps |-> trimmed.seps
                           \o [i \in 1..(Len(block) + 1) |-> "\n"]]
            ELSE JoinLines(Splice(lines, insertIndex, 0, block))

\* buildProgramSourceFromTracks for the track: its assembly gets the
\* statics of its controls and is stored back
BuildProgram ==
    /\ Len(builds) < MaxBuilds
    /\ \E i \in 1..Len(machineAssembly.lines) :
            TrimLine(machineAssembly.lines[i]) # <<>>
    /\ LET sourceWithStatics ==
               injectControlStatics(machineAssembly, controlStatics)
       IN /\ machineAssembly' = sourceWithStatics
          /\ builds' = Append(builds, [before |-> machineAssembly,
                                       statics |-> controlStatics,
                                       after |-> sourceWithStatics])
    /\ UNCHANGED <<controlStatics, linkVars, sendVars, restoreVars,
                   dispVars, fetchVars, recvVars, loadVars, vmVars,
                   hostVars, sliderVars>>

\* the user moves a control of the track
ControlInput(statics) ==
    /\ statics # controlStatics
    /\ controlStatics' = statics
    /\ UNCHANGED <<machineAssembly, builds, linkVars, sendVars, restoreVars,
                   dispVars, fetchVars, recvVars, loadVars, vmVars,
                   hostVars, sliderVars>>

TrackNext ==
    \/ BuildProgram
    \/ \E statics \in StaticsChoices : ControlInput(statics)

(* ----------------------------------------------------------------------- *)
(* Properties of the control statics of a track                            *)
(* ----------------------------------------------------------------------- *)

\* the number of control_statics blocks of a text: header lines with an
\* .end line after them
StaticsBlocks(text) ==
    Cardinality({i \in 1..Len(text.lines) :
                    /\ IsHeader(text.lines[i])
                    /\ \E j \in (i + 1)..Len(text.lines) :
                           IsEnd(text.lines[j])})

\* the text has exactly one control_statics block, and it holds the labels
\* and values of statics
HoldsStatics(text, statics) ==
    LET block == buildControlStaticsBlock(statics)
        first == FirstOf({i \in 1..Len(text.lines) :
                             IsHeader(text.lines[i])})
    IN /\ StaticsBlocks(text) = 1
       /\ first # -1
       /\ SubSeq(text.lines, first, first + Len(block) - 1) = block

\* the builds the property is about: with statics, of a source with at
\* most one block
StaticsBuilds ==
    {i \in 1..Len(builds) :
        /\ builds[i].statics # <<>>
        /\ StaticsBlocks(builds[i].before) <= 1}

C38_FramesSentInOrderOneAtATime ==
    LET connected == SelectSeq(consumed, LAMBDA e : e.writer # Null)
    IN /\ \A i \in 1..Len(outLog) :
            ~outLog[i].settled =>
                i = Len(outLog) /\ consumer = "transferOut"
       /\ Len(consumed) <= Len(enqLog)
       /\ \A i \in 1..Len(consumed) :
            /\ consumed[i].k = enqLog[i].k
            /\ consumed[i].message = enqLog[i].bytes
       /\ consumer = "dequeue" =>
            values = <<>> /\ Len(consumed) = Len(enqLog)
       /\ Len(outLog) = Len(connected)
       /\ \A i \in 1..Len(outLog) :
            /\ outLog[i].k = connected[i].k
            /\ outLog[i].message = connected[i].message
            /\ outLog[i].device = connected[i].writer

\* the first frame was dequeued with no device connected and discarded; a
\* device was connected later, and the next two frames, which differ, were
\* transmitted one after the other
C38_Witness ==
    /\ Len(consumed) = 3
    /\ consumed[1].writer = Null
    /\ Len(outLog) = 2
    /\ outLog[1].k = 2 /\ outLog[1].settled
    /\ outLog[2].k = 3 /\ ~outLog[2].settled
    /\ outLog[1].message # outLog[2].message
    /\ writer # Null

\* C39: AsyncQueue is a FIFO hand-off.  After any sequence of enqueue and
\* dequeue calls, values and resolvers are never both non-empty; the k-th
\* dequeue call has received the k-th enqueued value as soon as both calls
\* were made, and nothing before; the values waiting are exactly those
\* enqueued after the ones delivered, and the dequeue calls waiting are
\* exactly those made after the ones served: no value is lost or delivered
\* twice.
C39_QueueIsFifoHandOff ==
    LET served == IF Len(enqLog) < Len(delivery)
                  THEN Len(enqLog)
                  ELSE Len(delivery)
    IN /\ values = <<>> \/ resolvers = <<>>
       /\ \A k \in 1..Len(delivery) :
            delivery[k] = IF k <= Len(enqLog) THEN <<enqLog[k]>> ELSE <<>>
       /\ values = SubSeq(enqLog, served + 1, Len(enqLog))
       /\ resolvers = [i \in 1..(Len(delivery) - served) |-> served + i]

\* two different values were delivered in order, the second one to a dequeue
\* call that had waited for it, and a further dequeue call is waiting
C39_Witness ==
    /\ consumer = "init"
    /\ Len(delivery) = 3
    /\ Len(enqLog) = 2
    /\ delivery[1] # delivery[2]
    /\ delivery[2] = <<enqLog[2]>>
    /\ resolvers = <<3>>

(* ----------------------------------------------------------------------- *)
(* Restoring a received UI state                                           *)
(* ----------------------------------------------------------------------- *)

\* the restore state as a record; a blob is named by its number
Restore ==
    [pendingUiStateBytes |-> pendingUiStateBytes,
     retryTimers |-> retryTimers, gunzips |-> gunzips]

SetRestore(r) ==
    /\ pendingUiStateBytes' = r.pendingUiStateBytes
    /\ retryTimers' = r.retryTimers
    /\ gunzips' = r.gunzips

\* applyCompressedUiState(bytes) for a non-empty blob, up to its await:
\* with no restorer it keeps the blob and arms a retry timer, else it
\* starts gunzipBytes
applyCompressedUiState(r, bytes) ==
    IF ~restorerRegistered
    THEN [r EXCEPT !.pendingUiStateBytes = <<bytes>>,
                   !.retryTimers = @ + 1]
    ELSE [r EXCEPT !.gunzips = Append(@, bytes)]

\* the callback of the retry timer
RetryTimerCallback(r) ==
    IF r.pendingUiStateBytes # <<>>
    THEN [applyCompressedUiState(r, r.pendingUiStateBytes[1])
              EXCEPT !.pendingUiStateBytes = <<>>]
    ELSE r

\* the last block of a transfer arrives: onUiStateBlock calls
\* applyCompressedUiState with the blob
BlobReceived ==
    /\ blobsReceived < MaxBlobs
    /\ blobsReceived' = blobsReceived + 1
    /\ earlyBlobs' = IF restorerRegistered
                     THEN earlyBlobs
                     ELSE earlyBlobs \cup {blobsReceived + 1}
    /\ SetRestore(applyCompressedUiState(Restore, blobsReceived + 1))
    /\ UNCHANGED <<restorerRegistered, restoreLog, readyCalls, linkVars,
                   sendVars, trackVars, dispVars, fetchVars, recvVars,
                   loadVars, vmVars, hostVars, sliderVars>>

\* the page registers its restorer
RegisterRestorer ==
    /\ ~restorerRegistered
    /\ restorerRegistered' = TRUE
    /\ UNCHANGED <<pendingUiStateBytes, retryTimers, gunzips, blobsReceived,
                   earlyBlobs, restoreLog, readyCalls, linkVars, sendVars,
                   trackVars, dispVars, fetchVars, recvVars, loadVars,
                   vmVars, hostVars, sliderVars>>

\* notifyUiReady()
notifyUiReady ==
    /\ readyCalls < MaxReady
    /\ readyCalls' = readyCalls + 1
    /\ SetRestore(IF pendingUiStateBytes # <<>>
                  THEN applyCompressedUiState(
                           [Restore EXCEPT !.pendingUiStateBytes = <<>>],
                           pendingUiStateBytes[1])
                  ELSE Restore)
    /\ UNCHANGED <<restorerRegistered, blobsReceived, earlyBlobs,
                   restoreLog, linkVars, sendVars, trackVars, dispVars,
                   fetchVars, recvVars, loadVars, vmVars, hostVars,
                   sliderVars>>

\* a retry timer fires
RetryTimerFires ==
    /\ retryTimers > 0
    /\ SetRestore(RetryTimerCallback(
           [Restore EXCEPT !.retryTimers = @ - 1]))
    /\ UNCHANGED <<restorerRegistered, blobsReceived, earlyBlobs,
                   restoreLog, readyCalls, linkVars, sendVars, trackVars,
                   dispVars, fetchVars, recvVars, loadVars, vmVars,
                   hostVars, sliderVars>>

\* the i-th gunzipBytes in progress resolves: restore(decompressed)
GunzipResolves(i) ==
    /\ i \in 1..Len(gunzips)
    /\ restoreLog' = Append(restoreLog, gunzips[i])
    /\ gunzips' = [j \in 1..(Len(gunzips) - 1) |->
                      IF j < i THEN gunzips[j] ELSE gunzips[j + 1]]
    /\ UNCHANGED <<pendingUiStateBytes, restorerRegistered, retryTimers,
                   blobsReceived, earlyBlobs, readyCalls, linkVars, sendVars,
                   trackVars, dispVars, fetchVars, recvVars, loadVars,
                   vmVars, hostVars, sliderVars>>

RestoreNext ==
    \/ BlobReceived
    \/ RegisterRestorer
    \/ notifyUiReady
    \/ RetryTimerFires
    \/ \E i \in 1..Len(gunzips) : GunzipResolves(i)

(* ----------------------------------------------------------------------- *)
(* Properties of restoring a received UI state                             *)
(* ----------------------------------------------------------------------- *)

\* the number of entries of the sequence s that equal x
CountIn(s, x) == Cardinality({i \in 1..Len(s) : s[i] = x})

\* C35: a blob received before a restorer is registered is retained until
\* a restorer is available and is then passed to it exactly once.  The
\* newest blob, when it was received with no restorer registered, is at any
\* time in exactly one place: kept in pendingUiStateBytes, being
\* decompressed for the restorer, or passed to the restorer once.
C35_EarlyBlobKeptOrRestoredOnce ==
    blobsReceived \in earlyBlobs =>
        (IF pendingUiStateBytes = <<blobsReceived>> THEN 1 ELSE 0)
        + CountIn(gunzips, blobsReceived)
        + CountIn(restoreLog, blobsReceived) = 1

(* ----------------------------------------------------------------------- *)
(* Specifications                                                          *)
(* ----------------------------------------------------------------------- *)

SliderInit ==
    /\ pendingColor = <<>>
    /\ sendTimers = <<>>

RestoreInit ==
    /\ pendingUiStateBytes = <<>>
    /\ restorerRegistered = FALSE
    /\ retryTimers = 0
    /\ gunzips = <<>>
    /\ blobsReceived = 0
    /\ earlyBlobs = {}
    /\ restoreLog = <<>>
    /\ readyCalls = 0

TrackInit ==
    /\ machineAssembly = EmptyText
    /\ controlStatics = <<>>
    /\ builds = <<>>

PageInit == LinkInit /\ SendInit /\ RestoreInit /\ TrackInit

RestInit == LoadInit /\ VmInit /\ SliderInit /\ PageInit

Init == DispInit /\ FetchInit /\ DeviceInit /\ RecvInit /\ RestInit

Next ==
    \/ DispNextErr \/ FetchNext \/ RecvNext \/ WireNext \/ LoadNext \/ VmNext
    \/ RenderNext \/ LinkNext \/ SendNext \/ RestoreNext \/ TrackNext

Spec == Init /\ [][Next]_vars

SpecDispatch == Init /\ [][DispNext]_vars

SpecDispatchFair == Init /\ [][DispNext]_vars /\ WatchdogFairness

SpecDispatchErr == Init /\ [][DispNextErr]_vars

SpecDispatchOk == Init /\ [][DispNextOk]_vars /\ WatchdogFairness

SpecFetch == Init /\ [][FetchNext]_vars

FaithfulInit ==
    DispInit /\ FetchInit /\ FaithfulDeviceInit /\ RecvInit /\ RestInit

SpecFaithful == FaithfulInit /\ [][FaithfulNext]_vars /\ FaithfulFairness

ReconnectInit ==
    DispInit /\ FetchInit /\ DeviceBlobInit /\ RecvInit /\ RestInit

SpecReconnect == ReconnectInit /\ [][ReconnectNext]_vars

SpecLossy == ReconnectInit /\ [][ReconnectNext]_vars /\ LossyFairness

SpecRecv == Init /\ [][RecvNext]_vars

SpecWire == Init /\ [][WireNext]_vars

SpecLoad == Init /\ [][LoadNext]_vars

HostInit ==
    /\ DispInit /\ FetchInit /\ DeviceInit /\ RecvInit /\ LoadInit
    /\ SliderInit /\ PageInit

VmCallStart == HostInit /\ VmCallInit

SpecVmCall == VmCallStart /\ [][VmCallNext]_vars

VmMemStart == HostInit /\ VmMemInit

SpecVmMem == VmMemStart /\ [][VmMemNext]_vars

VmArithStart == HostInit /\ VmArithInit

SpecVmArith == VmArithStart /\ [][VmArithNext]_vars

RenderStart == HostInit /\ HostLoaded(ScenarioProgram)

SpecRender == RenderStart /\ [][RenderNext]_vars

\* a run that has not ended executes its next instruction
SpecCallFair == RenderStart /\ [][CallNext]_vars /\ WF_vars(run)

\* the track controls' calls while the link comes and goes
DispLinkNext ==
    \/ \E m \in Machines, f \in Functions, ok \in BOOLEAN : UiCall(m, f, ok)
    \/ \E ok \in BOOLEAN : OnReturn(ok)
    \/ ReplyLost
    \/ ErrorReply
    \/ \E t \in timers, ok \in BOOLEAN : WatchdogFires(t, ok)
    \/ \E ok \in BOOLEAN : ConnectUsbDevice(ok)
    \/ Disconnect

SpecDispatchLink == Init /\ [][DispLinkNext]_vars

SpecLink == Init /\ [][LinkNext]_vars

SpecQueue == Init /\ [][QueueNext]_vars

SpecSend == Init /\ [][SendNext]_vars

SpecRestore == Init /\ [][RestoreNext]_vars

\* a track with any source and any controls, the rest as constructed
TrackStart ==
    /\ DispInit /\ FetchInit /\ DeviceInit /\ RecvInit
    /\ LoadInit /\ VmInit /\ SliderInit
    /\ LinkInit /\ SendInit /\ RestoreInit
    /\ machineAssembly \in SourceTexts
    /\ controlStatics \in StaticsChoices
    /\ builds = <<>>

SpecTrack == TrackStart /\ [][TrackNext]_vars

SpecSlider == Init /\ [][SliderNext]_vars

SpecSliderUi == Init /\ [][SliderUiNext]_vars

DefaultStart == HostInit /\ HostLoaded(DefaultProgram)

SpecDefault == DefaultStart /\ [][DefaultNext]_vars

(* ----------------------------------------------------------------------- *)
(* Properties of the dispatcher                                            *)
(* ----------------------------------------------------------------------- *)

SameKey(a, b) ==
    a.machineIndex = b.machineIndex /\ a.functionIndex = b.functionIndex

InFlightIds == {r.requestId : r \in inFlight}

\* C1: at most one CallRequest per (machine, function) key is in flight
\* (sent, neither returned nor timed out) at any time, and every deck.call
\* invocation leaves no earlier request of its key in flight.
C1_OneInFlightPerKey ==
    /\ [](\A a, b \in inFlight : SameKey(a, b) => a = b)
    /\ [][\A i \in (Len(callLog) + 1) .. Len(callLog') :
            \A r \in inFlight' :
                SameKey(r, callLog'[i]) => r.requestId = callLog'[i].requestId
         ]_vars

\* a call is coalesced behind an in-flight request of its own key
C1_Witness ==
    \E r \in inFlight : \E i \in 1 .. Len(pendingCalls) :
        SameKey(r, pendingCalls[i])

\* C2: pendingCalls holds at most one entry per key and that entry carries
\* the args of the latest call for the key; args of a superseded call are
\* never passed to deck.call; per key the device is sent args in call order.
C2_CoalesceLatest ==
    /\ \A i, j \in 1 .. Len(pendingCalls) :
           EntryKey(pendingCalls[i]) = EntryKey(pendingCalls[j]) => i = j
    /\ \A i \in 1 .. Len(pendingCalls) :
           pendingCalls[i].args = lastCall[EntryKey(pendingCalls[i])]
    /\ \A i \in 1 .. Len(callLog) :
           <<EntryKey(callLog[i]), callLog[i].args>> \notin superseded
    /\ \A i, j \in 1 .. Len(callLog) :
           (/\ i < j
            /\ SameKey(callLog[i], callLog[j])
            /\ callLog[i].requestId # Null
            /\ callLog[j].requestId # Null)
           => callLog[i].args < callLog[j].args

\* the watchdog timer t expires in this step
WatchdogStep(t) ==
    /\ t \in timers
    /\ t \notin timers'
    /\ callCount' = callCount
    /\ Len(awaiting') >= Len(awaiting)
    /\ SubSeq(awaiting', 1, Len(awaiting)) = awaiting

Passed == {<<EntryKey(callLog[i]), callLog[i].args>> : i \in 1 .. Len(callLog)}

Queued ==
    {<<EntryKey(pendingCalls[i]), pendingCalls[i].args>> :
        i \in 1 .. Len(pendingCalls)}

\* C4: when deck.call always returns an ID and every request returns or
\* times out, every call given to callMachineFunction is passed to deck.call
\* at once or queued, a queued call leaves the queue only by being passed
\* to deck.call or by being replaced (a later call of its key, the
\* brightness purge), and every queued call does leave the queue (after the
\* last of the MaxCalls UI events the queue drains).
C4_CoalescedEventuallySent ==
    /\ [][\A k \in Keys : lastCall'[k] # lastCall[k] =>
              <<k, lastCall'[k]>> \in (Passed' \cup Queued')]_vars
    /\ [][\A q \in Queued : q \notin Queued' =>
              (q \in Passed' \/ q \in superseded')]_vars
    /\ (pendingCalls # <<>>) ~> (pendingCalls = <<>>)

\* one brightness input reached two machines: the second call was queued
\* behind the first and has been passed to deck.call after it completed
C4_Witness ==
    \E i, j \in 1 .. Len(callLog) :
        /\ i < j
        /\ callLog[i].args = callLog[j].args
        /\ callLog[j].requestId # Null

\* C12: an Error frame that carries has_request_id and the ID of the
\* request in the slot completes that call when it is delivered: the request
\* has left the slot and the oldest queued call, if any, has been taken
\* from pendingCalls.
C12_ErrorCompletesCall ==
    lastError # <<>> =>
        /\ pendingRequestId # lastError[1].requestId
        /\ lastError[1].queued > 0 =>
               Len(pendingCalls) = lastError[1].queued - 1

\* the request IDs deck.call has returned so far
SentIds == {callLog[i].requestId : i \in 1 .. Len(callLog)} \ {Null}

\* C15: the watchdog is per request: the only timer that can fire is the
\* one armed for the request in the slot, so a request that has returned or
\* timed out leaves no timer behind and a firing timer releases only the
\* request it was armed for.
C15_WatchdogPerRequest ==
    /\ \A t \in timers : t.h = pendingTimer /\ t.req = pendingRequestId
    /\ \A id \in SentIds : id # pendingRequestId => \A t \in timers : t.req # id
    /\ pendingRequestId = Null => timers = {}
    /\ pendingRequestId # Null => \E t \in timers : t.req = pendingRequestId

\* request A has returned, request B has timed out (its reply still owed),
\* and a later request holds the slot with its own timer armed
C15_Witness ==
    /\ pendingRequestId # Null
    /\ \E a \in SentIds, b \in SentIds :
           /\ a < b /\ b < pendingRequestId
           /\ \A i \in 1 .. Len(awaiting) : awaiting[i] # a
           /\ \E i \in 1 .. Len(awaiting) : awaiting[i] = b
    /\ timers = {[h |-> pendingTimer, req |-> pendingRequestId]}

(* ----------------------------------------------------------------------- *)
(* Properties of the UI-state block transfer                               *)
(* ----------------------------------------------------------------------- *)

Live == uiStateFetch # NullFetch

AppliedEpochs == {applied[i].epoch : i \in 1 .. Len(applied)}

\* C5: within a transfer the block numbers requested are 0, 1, 2, ... in
\* order without gaps or repeats; block n+1 is requested only after block n
\* was accepted; at most one request of the transfer is unanswered; no
\* request follows the completion.
C5_BlocksRequestedInOrder ==
    /\ \A e \in 1 .. epochs :
           \A i \in 1 .. Len(EpochRequests(requestLog, e)) :
               EpochRequests(requestLog, e)[i].block = i - 1
    /\ Live =>
           LET u == uiStateFetch[1]
           IN /\ Len(EpochRequests(wire, u.epoch)) <= 1
              /\ Len(EpochRequests(requestLog, u.epoch)) <= Len(u.chunks) + 1
              /\ u.totalSize # Null => u.received < u.totalSize
    /\ \A i \in 1 .. Len(applied) :
           Len(EpochRequests(requestLog, applied[i].epoch))
               = applied[i].requests

\* C6: a device holding a blob of length L > 0 that answers the request for
\* block n with total_size L and block n of the blob makes the transfer
\* complete, and applyCompressedUiState receives exactly the blob.
C6_TransferYieldsBlob ==
    /\ [](/\ Len(applied) <= 1
          /\ \A i \in 1 .. Len(applied) :
                 /\ applied[i].bytes = blob
                 /\ Len(applied[i].bytes) = Len(blob))
    /\ <>(applied # <<>>)

\* a blob that does not fill its last block has been reassembled from
\* several blocks
C6_Witness ==
    /\ applied # <<>>
    /\ applied[1].blocks >= 2
    /\ Len(blob) % blockSize # 0

\* a transfer that ended without restore issues no request afterwards, is
\* never restored and is not the running transfer
StaysEnded(x) ==
    /\ Len(EpochRequests(requestLog, x.epoch)) = x.requests
    /\ x.epoch \notin AppliedEpochs
    /\ Live => uiStateFetch[1].epoch # x.epoch

\* C7: a reply whose block_number is not the expected one aborts the
\* transfer: its state is dropped, no request is issued for the transfer
\* afterwards (a callback scheduled before the abort issues none) and
\* applyCompressedUiState is never called with its data.
C7_OutOfOrderAborts ==
    /\ (lastReply.live /\ lastReply.unexpected)
           => \E x \in ended : x.epoch = lastReply.epoch
    /\ \A x \in ended : x.how = "order" => StaysEnded(x)

\* a transfer was aborted by an out-of-order reply while a callback was
\* scheduled, and every scheduled callback has run since
C7_Witness ==
    /\ \E x \in ended : x.how = "order" /\ x.scheduled
    /\ fetchTimers = 0

\* C8: a first reply with total_size = 0 ends the transfer at once: the
\* state is dropped, no block is requested and nothing is restored.
C8_ZeroTotalEnds ==
    /\ (lastReply.live /\ lastReply.first /\ lastReply.zeroTotal)
           => \E x \in ended : x.epoch = lastReply.epoch /\ x.how = "zero"
    /\ \A x \in ended : x.how = "zero" => StaysEnded(x)

\* the reply to ReadUiStateBlock(0), the only request of its transfer,
\* announced total_size = 0, and a later transfer has run since
C8_Witness ==
    \E x \in ended : x.how = "zero" /\ x.requests = 1 /\ x.epoch < epochs

\* C14: every transfer that is started ends, by a restore or by an abort,
\* also when replies are lost: a running transfer does not run forever.
C14_TransferEventuallyEnds ==
    \A e \in 1 .. MaxConnects :
        (Live /\ uiStateFetch[1].epoch = e)
            ~> ~(Live /\ uiStateFetch[1].epoch = e)

(* ----------------------------------------------------------------------- *)
(* Properties of the receive loop                                          *)
(* ----------------------------------------------------------------------- *)

ZeroPositions(s) == {i \in 1 .. Len(s) : s[i] = 0}

\* the position of the last 0x00 before position z, or 0
PrevZero(s, z) ==
    LET before == {i \in ZeroPositions(s) : i < z}
    IN IF before = {} THEN 0
       ELSE CHOOSE m \in before : \A i \in before : i <= m

\* C9: the frames given to deck.receive are a function of the concatenated
\* byte stream alone: the k-th frame is the stretch of the stream that ends
\* at the k-th 0x00 and starts after the one before it, however the stream
\* was cut into transferIn results; the bytes after the last 0x00 wait in
\* incomingFrame.
C9_FramesDependOnStreamOnly ==
    /\ Len(delivered) = Cardinality(ZeroPositions(stream))
    /\ \A z \in ZeroPositions(stream) :
           delivered[Cardinality({i \in ZeroPositions(stream) : i <= z})].frame
               = SubSeq(stream, PrevZero(stream, z) + 1, z)
    /\ incomingFrame
           = SubSeq(stream, PrevZero(stream, Len(stream) + 1) + 1, Len(stream))

\* one frame spans two transferIn results and one transferIn result ends
\* two frames
C9_Witness ==
    /\ \E z \in ZeroPositions(stream) : \E c \in chunkEnds :
           PrevZero(stream, z) < c /\ c < z
    /\ \E y, z \in ZeroPositions(stream) :
           y < z /\ \A c \in chunkEnds : c < y \/ c >= z

\* C10 as stated: a frame given to deck.receive holds only non-zero bytes
\* (the 0x00 delimiter is not passed on) and the buffer is empty right after
\* each delivery.
C10_FramesExcludeDelimiter ==
    \A i \in 1 .. Len(delivered) :
        /\ \A j \in 1 .. Len(delivered[i].frame) : delivered[i].frame[j] # 0
        /\ delivered[i].bufferAfter = <<>>

\* C10 amended: a frame given to deck.receive is the non-zero bytes collected
\* since the previous 0x00 followed by the 0x00 delimiter as its last byte,
\* and the buffer is empty right after each delivery.
C10_FramesEndWithDelimiter ==
    \A i \in 1 .. Len(delivered) :
        LET frame == delivered[i].frame
        IN /\ Len(frame) >= 1
           /\ frame[Len(frame)] = 0
           /\ \A j \in 1 .. (Len(frame) - 1) : frame[j] # 0
           /\ delivered[i].bufferAfter = <<>>

\* a frame with a non-empty payload has been delivered after an earlier one
C10_Witness ==
    /\ Len(delivered) >= 2
    /\ Len(delivered[2].frame) >= 2

(* ----------------------------------------------------------------------- *)
(* Properties of the wire codec                                            *)
(* ----------------------------------------------------------------------- *)

\* the CallRequests decoded from the frames given to the codec so far
DecodedFrames ==
    [i \in 1 .. Len(delivered) |->
        DecodeCallRequest(StripTerminator(delivered[i].frame))]

\* C11: once the frame of a CallRequest has been read off the wire, the
\* receiver has delivered exactly one frame and it decodes to the request
\* that was sent.
C11_WireRoundTrip ==
    (sent # <<>> /\ pendingBytes = <<>>)
        => /\ Len(delivered) = 1
           /\ DecodedFrames[1] = sent

(* ----------------------------------------------------------------------- *)
(* Properties of the Load Program button                                   *)
(* ----------------------------------------------------------------------- *)

(* C13 as stated: a click for which the track sources report an error, or  *)
(* for which compile_program throws, does not call deck.load_program.      *)
C13_ErrorLoadsNothing ==
    \A i \in DOMAIN loadClick :
        LET c == loadClick[i]
        IN  (c.error \/ (c.compiled # <<>> /\ c.compileThrows))
            => c.loaded = <<>>

(* C13, amended: deck.load_program is not called when compile_program      *)
(* throws, when the track sources report a selected machine without        *)
(* assembly, or when they report an empty selection and there is no editor *)
(* or its text is blank; with an empty selection and a non-blank editor    *)
(* the editor's text is what is compiled, and loaded if nothing throws.    *)
C13_ErrorLoadsNothingUnlessEditorFallback ==
    \A i \in DOMAIN loadClick :
        LET c == loadClick[i]
            fallback == c.hasEditor /\ c.error /\ c.isEmpty
                            /\ Trim(c.editorValue) # ""
        IN  /\ (c.compiled # <<>> /\ c.compileThrows) => c.loaded = <<>>
            /\ (c.error /\ ~fallback) => c.loaded = <<>>
            /\ fallback => c.compiled = <<c.editorValue>>
            /\ (fallback /\ ~c.compileThrows /\ ~c.gzipThrows)
                    => c.loaded = <<c.editorValue>>

(* A click whose compile_program threw, and a click that reported an empty *)
(* track selection and loaded the editor's text.                           *)
C13_Witness ==
    /\ loadClick # <<>>
    /\ loadClicks = 2
    /\ loadClick[1].compileThrows
    /\ loadClick[1].compiled # <<>>
    /\ loadClick[1].loaded = <<>>
    /\ loadCalls = <<"editor">>

(* ----------------------------------------------------------------------- *)
(* Properties of the light_machine VM                                      *)
(* ----------------------------------------------------------------------- *)

\* the instruction executed last
LastOp == vmTrace[Len(vmTrace)]

\* this step executes an instruction with opcode word op to its end
Executed(op) ==
    /\ Len(vmTrace') = Len(vmTrace) + 1
    /\ vmTrace'[Len(vmTrace')].op = op
    /\ vmError' = <<>>

\* the last n values of a stack
TopValues(stack, n) == SubSeq(stack, Len(stack) - n + 1, Len(stack))

\* C16: a CALL or CALL_SHARED with arg_count = n records the depth below
\* its n arguments, and the RET k that ends the call removes the frame
\* header, the arguments and the callee's temporaries and leaves the top k
\* values on the caller's stack: the depth is caller_depth + k and the
\* caller's cells are as they were.  The host arguments 10, 20, 2, 3
\* followed by CALL, ADD, RET 1 leave the stack [30].
C16_StackBalance ==
    /\ [][\A op \in {OP_CALL, OP_CALL_SHARED} : Executed(op) =>
            LET frame == callFrames'[Len(callFrames')]
                n == vmStack[Len(vmStack) - 1][2]
            IN /\ frame.arg_count = n
               /\ frame.arg_start = Len(vmStack) - 2 - n
               /\ Len(vmStack') = frame.arg_start + 2 + n
         ]_vars
    /\ [][Executed(OP_RET) =>
            LET frame == callFrames[Len(callFrames)]
                k == vmTrace'[Len(vmTrace')].operand
            IN /\ Len(vmStack') = frame.arg_start + k
               /\ SubSeq(vmStack', 1, frame.arg_start)
                      = SubSeq(vmStack, 1, frame.arg_start)
               /\ TopValues(vmStack', k) = TopValues(vmStack, k)
               /\ callFrames' = SubSeq(callFrames, 1, Len(callFrames) - 1)
         ]_vars
    /\ [](\A op \in {OP_CALL, OP_CALL_SHARED} :
            (/\ Len(vmTrace) = 3
             /\ vmTrace[1].op = op
             /\ vmTrace[2].op = OP_ADD
             /\ vmTrace[3].op = OP_RET /\ vmTrace[3].operand = 1
             /\ vmError = <<>>
             /\ vmDepthSeen = 1
             /\ vmTrace[1].operand = <<Word(10), Word(20)>>)
                => vmStack = <<Word(30)>>)

\* the call of the example has returned
C16_Witness ==
    /\ Len(vmTrace) = 3
    /\ vmTrace[1].op = OP_CALL
    /\ vmTrace[1].operand = <<Word(10), Word(20)>>
    /\ vmTrace[2].op = OP_ADD
    /\ vmTrace[3].op = OP_RET /\ vmTrace[3].operand = 1
    /\ vmError = <<>>
    /\ callFrames = <<>>
    /\ vmStack = <<Word(30)>>

\* the frame_pointer of nesting level i: 0 for the host's entry point, arg0
\* of the frame for the i-th of the calls that have not returned
FrameBase(i) == IF i = 0 THEN 0 ELSE callFrames[i].arg_start + 2

\* C17: at every nesting level frame_pointer is the one the call entering
\* that level set, and each call keeps the frame_pointer of the level below
\* it; so once all calls have returned frame_pointer is what it was before
\* the outermost call.  mlp is never changed by a call or a return.
C17_FrameNesting ==
    /\ [](/\ frame_pointer = FrameBase(Len(callFrames))
          /\ \A i \in 1 .. Len(callFrames) :
                 callFrames[i].frame_pointer = FrameBase(i - 1)
          /\ mlp = InstanceGlobalsBase(machine))
    /\ [][/\ mlp' = mlp
          /\ Executed(OP_RET) =>
                 frame_pointer' = callFrames[Len(callFrames)].frame_pointer
         ]_vars

\* two nested calls have both returned by RET
C17_Witness ==
    /\ vmDepthSeen = 2
    /\ callFrames = <<>>
    /\ vmError = <<>>
    /\ Len(vmTrace) = 4
    /\ vmTrace[3].op = OP_RET
    /\ vmTrace[4].op = OP_RET
    /\ frame_pointer = 0

\* the memory cell or image word an instruction addresses, from the state
\* it is executed in, and whether that lies in the instruction's region
TargetOf(op, operand) ==
    IF op \in {OP_LLOAD, OP_LSTORE} THEN mlp + operand
    ELSE IF op \in {OP_GLOAD, OP_GSTORE} THEN operand
    ELSE IF op \in {OP_SLOAD, OP_SSTORE}
    THEN GLOBALS_SIZE + frame_pointer + operand
    ELSE IF vmStack # <<>> /\ FitsProgramWord(vmStack[Len(vmStack)])
    THEN vmStack[Len(vmStack)][2]
    ELSE ProgramWordModulus

InRegion(op, cell) ==
    IF op \in {OP_LLOAD, OP_LSTORE, OP_GLOAD, OP_GSTORE}
    THEN cell \in 0 .. (GLOBALS_SIZE - 1)
    ELSE IF op \in {OP_SLOAD, OP_SSTORE}
    THEN cell \in GLOBALS_SIZE .. (GLOBALS_SIZE + Len(vmStack) - 1)
    ELSE cell \in 0 .. (Len(static_data) - 1)

MemoryOps ==
    {OP_LLOAD, OP_LSTORE, OP_GLOAD, OP_GSTORE, OP_LOAD_STATIC, OP_SLOAD,
     OP_SSTORE}

\* the errors the runtime can report
MachineErrors ==
    {"InvalidProgramVersion", "InvalidOp", "OutOfBoudsStaticRead",
     "OutOfBoundsGlobalsAccess", "PopOnEmptyStack", "StackUnderFlow",
     "StackOverflow", "TwoFewArguments", "GlobalsBufferTooSmall",
     "MemoryBufferTooSmall", "MachineIndexOutOfRange",
     "SharedFunctionIndexOutOfRange", "StackValueTooLargeForProgramWord",
     "StackValueTooLargeForUsize", "ColorOutOfRange"}

\* C18: LLOAD, LSTORE, GLOAD, GSTORE, LOAD_STATIC, SLOAD and SSTORE access
\* the addressed cell only when it lies in the instruction's region (the
\* globals, the live stack, the program image); otherwise the run is
\* aborted with a named error and memory is left as it was.  The globals
\* instructions change the stack by their push or pop only.
C18_MemorySafety ==
    [][\A op \in MemoryOps :
         (Len(vmTrace') = Len(vmTrace) + 1 /\ vmTrace'[Len(vmTrace')].op = op)
         => LET last == vmTrace'[Len(vmTrace')]
                cell == TargetOf(op, last.operand)
            IN /\ \A a \in {last.access[i] : i \in DOMAIN last.access} :
                      /\ a.cell = cell
                      /\ InRegion(op, cell)
                      /\ a.region = IF op = OP_LOAD_STATIC
                                    THEN "static_data" ELSE "memory"
               /\ vmError' = <<>> => last.access # <<>>
               /\ ~InRegion(op, cell) =>
                      /\ vmError' # <<>>
                      /\ vmError'[1].kind \in MachineErrors
                      /\ globals' = globals
                      /\ \A i \in 1 .. Len(vmStack') : vmStack'[i] = vmStack[i]
               /\ op \in {OP_LLOAD, OP_GLOAD} /\ vmError' = <<>> =>
                      vmStack' = Append(vmStack, globals[cell + 1])
               /\ op \in {OP_LSTORE, OP_GSTORE} /\ vmError' = <<>> =>
                      /\ vmStack' = SubSeq(vmStack, 1, Len(vmStack) - 1)
                      /\ globals'[cell + 1] = vmStack[Len(vmStack)]
      ]_vars

\* inside a frame a store to the globals succeeded, and then an LSTORE
\* whose cell lies behind the globals was refused
C18_Witness ==
    /\ Len(vmTrace) = 3
    /\ vmTrace[1].op = OP_CALL
    /\ vmTrace[2].op \in {OP_GSTORE, OP_LSTORE}
    /\ vmTrace[2].access # <<>>
    /\ vmTrace[3].op = OP_LSTORE
    /\ mlp + vmTrace[3].operand >= GLOBALS_SIZE
    /\ vmError # <<>>
    /\ vmError[1].kind = "OutOfBoundsGlobalsAccess"

\* C19: a CALL or CALL_SHARED with arg_count = n leaves the n arguments, in
\* the order they were pushed, at frame_pointer + 0 .. frame_pointer + n - 1,
\* and SLOAD i pushes the value at frame_pointer + i: executed on entry to
\* the callee, SLOAD i (i < n) yields the i-th argument.
C19_ArgumentsAtFramePointer ==
    /\ [][\A op \in {OP_CALL, OP_CALL_SHARED} : Executed(op) =>
            LET n == vmStack[Len(vmStack) - 1][2]
            IN \A i \in 0 .. (n - 1) :
                   vmStack'[frame_pointer' + i + 1]
                       = vmStack[Len(vmStack) - 2 - n + i + 1]
         ]_vars
    /\ [][Executed(OP_SLOAD) =>
            LET i == vmTrace'[Len(vmTrace')].operand
            IN /\ vmStack' = Append(vmStack, vmStack[frame_pointer + i + 1])
               /\ (/\ vmTrace # <<>>
                   /\ LastOp.op \in {OP_CALL, OP_CALL_SHARED}
                   /\ i < Len(LastOp.operand))
                      => vmStack'[Len(vmStack')] = LastOp.operand[i + 1]
         ]_vars

\* the callee of a call with the arguments 10, 20 has read its second one
C19_Witness ==
    /\ Len(vmTrace) = 2
    /\ vmTrace[1].op \in {OP_CALL, OP_CALL_SHARED}
    /\ vmTrace[1].operand = <<Word(10), Word(20)>>
    /\ vmTrace[2].op = OP_SLOAD
    /\ vmTrace[2].operand = 1
    /\ vmError = <<>>
    /\ vmStack[Len(vmStack)] = Word(20)

\* the bytes of a word, least significant first, and the word of four bytes
WordBytes(w) == <<w[2] % 256, w[2] \div 256, w[1] % 256, w[1] \div 256>>

BytesWord(b) == <<b[4] * 256 + b[3], b[2] * 256 + b[1]>>

\* a + b mod 2^32 by byte-wise addition with carry
SumMod(a, b, carry) ==
    LET x == WordBytes(a)
        y == WordBytes(b)
        s1 == x[1] + y[1] + carry
        s2 == x[2] + y[2] + s1 \div 256
        s3 == x[3] + y[3] + s2 \div 256
        s4 == x[4] + y[4] + s3 \div 256
    IN BytesWord(<<s1 % 256, s2 % 256, s3 % 256, s4 % 256>>)

\* the complement of a word
Complement(w) == <<65535 - w[1], 65535 - w[2]>>

\* a - b mod 2^32 = a + ~b + 1 mod 2^32
DifferenceMod(a, b) == SumMod(a, Complement(b), 1)

\* a * b mod 2^32 by the columns of the byte-wise product
ProductMod(a, b) ==
    LET x == WordBytes(a)
        y == WordBytes(b)
        c1 == x[1] * y[1]
        c2 == x[1] * y[2] + x[2] * y[1] + c1 \div 256
        c3 == x[1] * y[3] + x[2] * y[2] + x[3] * y[1] + c2 \div 256
        c4 == x[1] * y[4] + x[2] * y[3] + x[3] * y[2] + x[4] * y[1]
                  + c3 \div 256
    IN BytesWord(<<c1 % 256, c2 % 256, c3 % 256, c4 % 256>>)

\* C20: ADD, SUB and MUL on operands lhs, rhs never fail and push
\* lhs + rhs, lhs - rhs, lhs * rhs modulo 2^32, a value in [0, 2^32); DIV
\* and MOD with rhs = 0 abort the run with InvalidOp carrying the opcode
\* word, 16 for DIV and 17 for MOD, and push nothing.
C20_ArithmeticWraps ==
    /\ [](vmTrace # <<>> /\ LastOp.operand # <<>> =>
            LET lhs == LastOp.operand[1]
                rhs == LastOp.operand[2]
                top == vmStack[Len(vmStack)]
            IN /\ LastOp.op \in {OP_ADD, OP_SUB, OP_MUL} =>
                      /\ vmError = <<>>
                      /\ IsStackWord(top)
                      /\ LastOp.op = OP_ADD => top = SumMod(lhs, rhs, 0)
                      /\ LastOp.op = OP_SUB => top = DifferenceMod(lhs, rhs)
                      /\ LastOp.op = OP_MUL => top = ProductMod(lhs, rhs)
               /\ (LastOp.op \in {OP_DIV, OP_MOD} /\ rhs = ZeroWord) =>
                      /\ vmError = <<[kind |-> "InvalidOp",
                                      word |-> IF LastOp.op = OP_DIV
                                               THEN 16 ELSE 17]>>)
    /\ [][\A op \in {OP_DIV, OP_MOD} :
            (/\ Len(vmTrace') = Len(vmTrace) + 1
             /\ vmTrace'[Len(vmTrace')].op = op
             /\ Len(vmStack) >= 2
             /\ vmStack[Len(vmStack)] = ZeroWord)
                => /\ vmError' # <<>>
                   /\ vmStack' = SubSeq(vmStack, 1, Len(vmStack) - 2)
         ]_vars

\* a product that wrapped: 0xFFFFFFFE * 0xFFFFFFFF = 2 modulo 2^32
C20_Witness ==
    /\ Len(vmTrace) = 1
    /\ LastOp.op = OP_MUL
    /\ LastOp.operand = <<MaxWord, <<65535, 65534>>>>
    /\ vmStack = <<Word(2)>>
    /\ vmError = <<>>

(* ----------------------------------------------------------------------- *)
(* Properties of the host render driver                                    *)
(* ----------------------------------------------------------------------- *)

\* the helper calls completed so far
Completed == {hostLog[n] : n \in DOMAIN hostLog}

\* C21: CALL_SHARED leaves mlp the GLOBALS_BASE of the calling instance,
\* and function 3 of either type (PUSH 0; CALL_SHARED 5; EXIT, shared
\* function 5 being GLOAD 0; RET 1) returns globals[0] whichever instance
\* of whichever type runs it: [42] once init of instance 0 has stored 42.
C21_SharedIndependentOfMlp ==
    /\ mlp = InstanceGlobalsBase(machine)
    /\ \A e \in Completed :
           (e.call.helper = "call" /\ e.call.function = 3) =>
               e.result = [kind |-> "values",
                           values |-> Append(e.call.args, e.call.globals[1])]

\* instance 1, of type 1 and with mlp 2, has called shared function 5 and
\* got the 42 instance 0 stored
C21_Witness ==
    /\ Len(hostLog) = 2
    /\ hostLog[1].call.helper = "init" /\ hostLog[1].call.instance = 0
    /\ hostLog[2].call.helper = "call" /\ hostLog[2].call.instance = 1
    /\ hostLog[2].call.function = 3
    /\ InstanceType(1) # InstanceType(0)
    /\ mlp = 2
    /\ hostLog[2].result = [kind |-> "values", values |-> <<Word(42)>>]

\* C22: get_color returns a colour only if its run reached EXIT with
\* exactly three values on the stack, each at most 255, and the colour is
\* b = the top, g = the value below it, r = the third; three values of
\* which one exceeds 255 give the error ColorOutOfRange and no colour.
C22_GetColorResult ==
    \A e \in Completed : e.call.helper = "get_color" =>
        /\ e.result.kind = "color" =>
               /\ e.exited
               /\ e.call.function = 2
               /\ Len(e.stack) = 3
               /\ \A i \in 1 .. 3 :
                      e.stack[i][1] = 0 /\ e.stack[i][2] <= 255
               /\ e.result.b = e.stack[3][2]
               /\ e.result.g = e.stack[2][2]
               /\ e.result.r = e.stack[1][2]
        /\ (/\ e.exited
            /\ Len(e.stack) = 3
            /\ \E i \in 1 .. 3 : e.stack[i][1] > 0 \/ e.stack[i][2] > 255)
               => e.result = [kind |-> "error",
                              error |-> [kind |-> "ColorOutOfRange",
                                         word |-> Null]]

\* get_color of instance 1 returned (255, 1, 2) for LED 0 and
\* ColorOutOfRange for LED 2, whose first channel is 257
C22_Witness ==
    /\ Len(hostLog) = 2
    /\ hostLog[1].call.helper = "get_color"
    /\ hostLog[1].stack = <<Word(255), Word(1), Word(2)>>
    /\ hostLog[1].result = [kind |-> "color", r |-> 255, g |-> 1, b |-> 2]
    /\ hostLog[2].call.helper = "get_color"
    /\ hostLog[2].stack = <<Word(257), Word(1), Word(2)>>
    /\ hostLog[2].result.kind = "error"
    /\ hostLog[2].result.error.kind = "ColorOutOfRange"

\* the state a run of the call starts in when nothing is on the stack but
\* the arguments
CleanStart(c) ==
    [stack |-> c.args, globals |-> c.globals, frame_pointer |-> 0,
     mlp |-> InstanceGlobalsBase(c.instance), machine |-> c.instance,
     pc |-> FunctionEntry(InstanceType(c.instance), c.function),
     callFrames |-> <<>>, error |-> <<>>, exited |-> FALSE, access |-> <<>>]

\* the state in which a run ends, given up after n instructions
RECURSIVE RunToEnd(_, _)
RunToEnd(vm, n) ==
    IF Ended(vm) \/ n = 0 THEN vm ELSE RunToEnd(Decode(vm), n - 1)

C24_RunTerminates == (hostCall # <<>>) ~> (hostCall = <<>>)

\* C26: on the default program init and start_frame end with an empty
\* stack and get_color (function 2, get_rgb) ends with exactly three values.
C26_DefaultStackDepth ==
    \A e \in Completed :
        /\ e.result.kind # "error"
        /\ e.call.helper \in {"init", "start_frame"} => e.stack = <<>>
        /\ e.call.helper = "get_color" => Len(e.stack) = 3

\* C25 (as stated): a call inserts three header slots at arg_start and
\* sets frame_pointer = arg_start + 3, and RET removes the frame down
\* through frame_pointer - 3.
C25_ThreeSlotHeader ==
    /\ [][\A op \in {OP_CALL, OP_CALL_SHARED} : Executed(op) =>
            LET n == vmStack[Len(vmStack) - 1][2]
                arg_start == Len(vmStack) - 2 - n
            IN /\ Len(vmStack') = arg_start + 3 + n
               /\ frame_pointer' = arg_start + 3
         ]_vars
    /\ [][Executed(OP_RET) =>
            LET k == vmTrace'[Len(vmTrace')].operand
            IN Len(vmStack') = frame_pointer - 3 + k
         ]_vars

\* C25: a call inserts two header slots at arg_start, return_pc and the
\* saved frame_pointer, and sets frame_pointer = arg_start + 2; mlp is not
\* saved and no call or return changes it.  RET k removes the frame down
\* through frame_pointer - 2, restores frame_pointer and pc to the values
\* the call put into the two slots and leaves the top k values.
C25_TwoSlotHeader ==
    /\ [][\A op \in {OP_CALL, OP_CALL_SHARED} : Executed(op) =>
            LET n == vmStack[Len(vmStack) - 1][2]
                arg_start == Len(vmStack) - 2 - n
            IN /\ Len(vmStack') = arg_start + 2 + n
               /\ vmStack'[arg_start + 1] = Word(pc + 1)
               /\ vmStack'[arg_start + 2] = Word(frame_pointer)
               /\ callFrames'[Len(callFrames')].return_pc = pc + 1
               /\ callFrames'[Len(callFrames')].frame_pointer = frame_pointer
               /\ frame_pointer' = arg_start + 2
               /\ mlp' = mlp
         ]_vars
    /\ [][Executed(OP_RET) =>
            LET k == vmTrace'[Len(vmTrace')].operand
            IN /\ Len(vmStack') = frame_pointer - 2 + k
               /\ SubSeq(vmStack', 1, frame_pointer - 2)
                      = SubSeq(vmStack, 1, frame_pointer - 2)
               /\ frame_pointer' = callFrames[Len(callFrames)].frame_pointer
               /\ pc' = callFrames[Len(callFrames)].return_pc
               /\ mlp' = mlp
         ]_vars

\* a call with two arguments made from inside a call has returned one value
C25_Witness ==
    /\ Len(vmTrace) = 3
    /\ vmTrace[1].op \in {OP_CALL, OP_CALL_SHARED}
    /\ vmTrace[2].op \in {OP_CALL, OP_CALL_SHARED}
    /\ vmTrace[3].op = OP_RET /\ vmTrace[3].operand = 1
    /\ vmError = <<>>
    /\ Len(callFrames) = 1
    /\ frame_pointer = 2

(* ----------------------------------------------------------------------- *)
(* Properties of the slider dispatcher                                     *)
(* ----------------------------------------------------------------------- *)

\* C27: at most one CallRequest for (machine 0, function 0) is in flight:
\* deck.call is not invoked while an earlier request has neither returned
\* nor timed out.
C27_OneSliderRequestInFlight ==
    \A r, q \in inFlight :
        (r.machineIndex = q.machineIndex /\ r.functionIndex = q.functionIndex)
            => r = q

\* the slider is at rest: nothing in flight, no watchdog armed, no send
\* scheduled
SliderAtRest ==
    /\ pendingRequestId = Null
    /\ inFlight = {}
    /\ awaiting = <<>>
    /\ timers = {}
    /\ sendTimers = <<>>

\* C28: only the most recent colour is sent: when the slider is at rest
\* and every deck.call returned a request ID, the last CallRequest carries
\* the colour of the latest slider input, and no colour is sent after a
\* newer one has been sent.
C28_LatestColourSent ==
    /\ (/\ SliderAtRest
        /\ callLog # <<>>
        /\ \A n \in DOMAIN callLog : callLog[n].requestId # Null)
           => callLog[Len(callLog)].args = callCount
    /\ LET requests == SelectSeq(callLog, LAMBDA c : c.requestId # Null)
       IN \A i, j \in DOMAIN requests :
              i < j => requests[i].args < requests[j].args

(* ----------------------------------------------------------------------- *)
(* Further properties of the call dispatcher                               *)
(* ----------------------------------------------------------------------- *)

\* C29: no coalesced call is stranded: whenever a handler has completed
\* and pendingCalls is not empty, a request is in flight.
C29_NoStrandedCall == pendingCalls # <<>> => pendingRequestId # Null

\* C30: a watchdog is armed exactly when a request is in flight:
\* pendingRequestId is non-null iff pendingTimer is non-null, and the only
\* timer armed is the one pendingTimer names, armed for that request.
C30_WatchdogIffInFlight ==
    /\ (pendingRequestId # Null) <=> (pendingTimer # Null)
    /\ Cardinality(timers) <= 1
    /\ pendingTimer # Null => \E t \in timers : t.h = pendingTimer
    /\ \A t \in timers : t.h = pendingTimer /\ t.req = pendingRequestId

\* handleDisconnect ended a transfer while a request was in flight; the
\* watchdog fired, its callback sent the queued call and armed a new timer
C30_Witness ==
    /\ \E e \in ended : e.how = "disconnect"
    /\ Len(callLog) = 2
    /\ callLog[2].requestId = pendingRequestId
    /\ pendingRequestId # Null
    /\ pendingTimer = 2
    /\ timers = {[h |-> 2, req |-> pendingRequestId]}
    /\ inFlight = {r \in inFlight : r.requestId = pendingRequestId}
    /\ awaiting # <<>> /\ Head(awaiting) # pendingRequestId

\* C31: a CallReturn whose request ID is not the one in the slot (a late
\* reply to a request that timed out, or a reply when nothing is in
\* flight) leaves pendingRequestId, the watchdog and pendingCalls as they
\* were, and no call is sent.
C31_StaleReturnIgnored ==
    (lastReturn # <<>> /\ lastReturn[1].requestId # lastReturn[1].pendingRequestId)
        => /\ pendingRequestId = lastReturn[1].pendingRequestId
           /\ pendingTimer = lastReturn[1].pendingTimer
           /\ pendingCalls = lastReturn[1].pendingCalls
           /\ Len(callLog) = lastReturn[1].calls
           /\ pendingTimer # Null => \E w \in timers : w.h = pendingTimer

\* the reply to a request that timed out has arrived while the next
\* request holds the slot and a call is queued
C31_Witness ==
    /\ lastReturn # <<>>
    /\ lastReturn[1].pendingRequestId # Null
    /\ lastReturn[1].requestId # lastReturn[1].pendingRequestId
    /\ pendingCalls # <<>>
    /\ \E n \in DOMAIN callLog : callLog[n].requestId = lastReturn[1].requestId

(* ----------------------------------------------------------------------- *)
(* Further properties of the UI-state block transfer                       *)
(* ----------------------------------------------------------------------- *)

\* C36: a UiStateBlockReply is accepted into the running transfer only if
\* it answers the outstanding block request: a reply that arrives while no
\* request is outstanding, a reply for a block other than the one asked
\* for, or a reply to a request of an earlier transfer leaves the running
\* transfer as it was.
C36_OnlyOutstandingAccepted ==
    [][(/\ wire # <<>>
        /\ wire' = Tail(wire)
        /\ uiStateFetch # NullFetch
        /\ \/ ~uiStateFetch[1].inFlight
           \/ Head(wire).epoch # uiStateFetch[1].epoch
           \/ Head(wire).block # uiStateFetch[1].nextBlock)
          => uiStateFetch' = uiStateFetch
     ]_vars

(* ----------------------------------------------------------------------- *)
(* Properties of the USB connection                                        *)
(* ----------------------------------------------------------------------- *)

\* C32: only events of the current connection end it: when a transfer
\* rejection or a USB disconnect event made the last step call
\* handleDisconnect while a device was connected, the event was for that
\* device.
C32_OnlyOwnEventsEnd ==
    (lastEnd # <<>> /\ lastEnd[1].writer # Null)
        => lastEnd[1].device = lastEnd[1].writer

\* C33: while writer.device is D exactly one receive loop bound to D is
\* running and usbReadActive is true, and never more than one receive loop
\* runs.
C33_ConnectedHasReceiveLoop ==
    /\ writer # Null =>
           /\ usbReadActive
           /\ Cardinality({l \in loops : l.device = writer}) = 1
    /\ Cardinality(loops) <= 1

\* C34: at most one body of connectUsbDevice is in progress, and
\* connectInFlight is true while one is.
C34_ConnectExclusive ==
    /\ Cardinality(bodies) <= 1
    /\ bodies # {} => connectInFlight

\* C37: after a disconnect followed by a reconnect the first frame
\* delivered to deck.receive holds only bytes received on the new
\* connection.
C37_NoLeakAcrossConnections ==
    (/\ linkMark # <<>>
     /\ linkMark[1].reconnect
     /\ Len(delivered) > linkMark[1].delivered)
        => LET frame == delivered[linkMark[1].delivered + 1].frame
               from == linkMark[1].stream
           IN /\ Len(frame) <= Len(stream) - from
              /\ frame = SubSeq(stream, from + 1, from + Len(frame))

====
